---- MODULE Spec2Model ----
(***************************************************************************)
(* Client-side pipeline state and audio-job orchestration of              *)
(* templates/app.js, as a state machine.                                   *)
(*                                                                         *)
(* JavaScript is single threaded: a handler runs atomically from one       *)
(* await of a network request to the next.  Every action below is one such *)
(* atomic segment: a user intent (button click), a timer tick, or the      *)
(* arrival of the response (or failure) of one request in flight.  The     *)
(* backend is outside the repository: response contents are inputs, drawn  *)
(* from small sets.                                                        *)
(***************************************************************************)
EXTENDS Integers, Sequences, FiniteSets, TLC

(* ---------------- bounds of the model ---------------- *)
MaxChapters == 2      \* chapters of an outline
MaxBeats    == 2      \* beats of a chapter plan
MaxInFlight == 2      \* handlers suspended on a request at the same time
MaxEvents   == 3      \* user intents and timer ticks in one behaviour
MaxReports  == 2      \* provider reports of the monitor in one behaviour
MaxAudioReports == 1  \* provider reports in one behaviour of the audio jobs
MaxBeatEvents == 2    \* user intents in one behaviour of the beat operations
MaxLen      == 5      \* characters of a text given to the dialogue tokenizer

(* ---------------- values ---------------- *)
TTS_PROVIDERS == {"piper", "xtts", "qwen"}

NoPlot  == -1         \* currentPlotData = null
NoChars == -1         \* currentCharacters = null
NoBeats == -1         \* currentBeats = null
NoText  == -1         \* key absent from beatTexts
Blank   == 0          \* a text that is empty after trim
BadText == -2         \* a beat_texts value that is not a string
NoTimer == 0          \* _audioPollTimer = null
NoChapter == 0        \* _audioPollChapter = null, or no chapter in a record

Chapters == 1..MaxChapters
BeatIdx  == 0..(MaxBeats - 1)
Slots    == 1..MaxInFlight

(* a non-empty text is represented by the chapter its request named *)
TextOf(c) == c
IsWritten(t) == t > Blank

NullBeats == [len |-> NoBeats, ch |-> NoChapter]

DefaultAudio == [exists |-> FALSE, status |-> "missing", url |-> ""]
(* beatAudio = {}: getBeatAudio creates the default record on first read, so
   an absent record and the default record are the same value here *)
EmptyAudio == [i \in BeatIdx |-> [p \in TTS_PROVIDERS |-> DefaultAudio]]
EmptyTexts == [i \in BeatIdx |-> NoText]

(* a handler suspended on a request: where it resumes (pc), its arguments and
   locals, and what the text map was when the click handler (snap) and the
   operation itself (before) were entered; ctl names the control that was
   clicked and on, in a planCurrentChapter, the controls that were enabled
   when it was clicked *)
Idle == [pc |-> "idle", ch |-> NoChapter, idx |-> 0, prov |-> "", tid |-> NoTimer,
         nxt |-> -1, force |-> FALSE, pre |-> NoChapter,
         ctl |-> "", snap |-> EmptyTexts, before |-> EmptyTexts, on |-> {}]

VARIABLES
    selectedData,        \* BOOLEAN: an idea variation is selected
    currentPlotData,     \* NoPlot, or the number of chapters of the outline
    currentCharacters,   \* NoChars, or the number of characters
    currentChapter,      \* 1-based cursor
    currentBeats,        \* [len, ch]: length of the plan (NoBeats = null), chapter it was made for
    beatTexts,           \* [BeatIdx -> NoText | Blank | TextOf(chapter)]
    beatAudio,           \* [BeatIdx -> [provider -> [exists, status, url]]]
    audioPollTimer,      \* _audioPollTimer: id of the interval, or NoTimer
    audioPollInFlight,   \* _audioPollInFlight
    audioPollChapter,    \* _audioPollChapter
    timers,              \* the intervals the browser has not cleared: {[id, ch]}
    inflight,            \* [Slots -> continuation of a handler awaiting a response]
    ui,                  \* disabled flags and what the write list last rendered
    events,              \* user intents and ticks so far
    last,                \* the segment that ran last: [op, idx, ch]
    tok                  \* highlightDialogueToHtml in progress: [raw, out, i]

vars == <<selectedData, currentPlotData, currentCharacters, currentChapter,
          currentBeats, beatTexts, beatAudio, audioPollTimer, audioPollInFlight,
          audioPollChapter, timers, inflight, ui, events, last, tok>>

pipeVars  == <<selectedData, currentPlotData, currentCharacters>>
pollVars  == <<audioPollTimer, audioPollInFlight, audioPollChapter, timers>>

(* ---------------- pure helpers of app.js ---------------- *)
totalChapters(plot) == IF plot > 0 THEN plot ELSE 0

hasBeatsPlanLoaded(beats) == beats.len > 0

normalizeBeatTextsKeys(obj, c) ==
    [i \in BeatIdx |-> IF obj[i] = BadText \/ obj[i] = NoText THEN NoText
                       ELSE IF obj[i] = Blank THEN Blank ELSE TextOf(c)]

firstUnwrittenIndex(beats, texts) ==
    IF beats.len <= 0 THEN -1
    ELSE IF \E i \in 0..(beats.len - 1) : i \in BeatIdx /\ ~IsWritten(texts[i])
         THEN CHOOSE i \in 0..(beats.len - 1) :
                 /\ i \in BeatIdx /\ ~IsWritten(texts[i])
                 /\ \A j \in 0..(i - 1) : IsWritten(texts[j])
         ELSE -1

Last(op, idx, ch) == [op |-> op, idx |-> idx, ch |-> ch]

(* ---------------- the rendered controls ---------------- *)
setStep5Enabled(u, enabled) == [u EXCEPT !.step5Disabled = ~enabled]

setChapterNavEnabled(u, enabled, plot, cur) ==
    [u EXCEPT !.prevDisabled = ~(enabled /\ totalChapters(plot) > 0 /\ cur > 1),
              !.nextDisabled = ~(enabled /\ totalChapters(plot) > 0 /\ cur < totalChapters(plot))]

updatePlanButtonUI(u, sel, plot) ==
    [u EXCEPT !.planDisabled = ~(sel /\ totalChapters(plot) > 0)]

syncChapterUI(u, sel, plot, cur) ==
    updatePlanButtonUI(setChapterNavEnabled(u, TRUE, plot, cur), sel, plot)

(* the provider the page takes as loaded: the first known name found in the
   text of #tts-providers, "" when there is none *)
getActiveTtsProvider(loaded) ==
    IF "piper" \in loaded THEN "piper"
    ELSE IF "xtts" \in loaded THEN "xtts"
    ELSE IF "qwen" \in loaded THEN "qwen"
    ELSE ""

hasAudio(audio, i, p) == audio[i][p].exists /\ audio[i][p].url # ""

anyAudioExists(audio, i) ==
    \E p \in TTS_PROVIDERS : audio[i][p].exists /\ audio[i][p].url # ""

(* updateBeatAudioRowUI(idx): sets the disabled flag of the generate buttons
   the row has and shows or hides the audio elements it has *)
updateBeatAudioRowUI(u, idx, audio) ==
    IF idx \notin u.rows THEN u
    ELSE LET active == getActiveTtsProvider(u.loaded) IN
         [u EXCEPT !.genEnabled =
                       {b \in u.genEnabled : b[1] # idx} \cup
                       {b \in u.genBtns : b[1] = idx /\ active # "" /\ b[2] = active},
                   !.audioShown =
                       {b \in u.audioShown : b[1] # idx \/ hasAudio(audio, b[1], b[2])}]

(* renderWriteBeats(beats, textsByIdx): rebuilds every row, so every per-beat
   button is a new, enabled element; a provider that has audio gets an audio
   element and, only when it is the active one, a Regenerate button *)
renderWriteBeats(u, beats, texts, audio) ==
    LET rows == {i \in BeatIdx : i < beats.len}
        audioRows == {i \in rows : IsWritten(texts[i]) \/ anyAudioExists(audio, i)}
        active == getActiveTtsProvider(u.loaded)
        btns == {b \in audioRows \X TTS_PROVIDERS :
                    ~hasAudio(audio, b[1], b[2]) \/ active = b[2]}
    IN
    [u EXCEPT !.rows = rows,
              !.written = {i \in rows : IsWritten(texts[i])},
              !.audioRows = audioRows,
              !.genBtns = btns,
              !.genEnabled = {b \in btns : active # "" /\ b[2] = active},
              !.audioShown = {b \in audioRows \X TTS_PROVIDERS : hasAudio(audio, b[1], b[2])},
              !.beatBtnsDisabled = FALSE]

clearWriteList(u) ==
    [u EXCEPT !.rows = {}, !.written = {}, !.audioRows = {},
              !.genBtns = {}, !.genEnabled = {}, !.audioShown = {}]

disableWriteControls(u, disabled, plot, cur) ==
    [setChapterNavEnabled(setStep5Enabled(u, ~disabled), ~disabled, plot, cur)
        EXCEPT !.beatBtnsDisabled = disabled]

(* openStep(stepId): the accordion shows one step at a time *)
openStep(u, stepId) == [u EXCEPT !.step = stepId]

(* the controls of steps 4 and 5 that a click can reach in u *)
ControlsOn(u) ==
    {c \in {"step5"} : ~u.step5Disabled} \cup
    {c \in {"beat"} : u.rows # {} /\ ~u.beatBtnsDisabled} \cup
    {c \in {"prev"} : ~u.prevDisabled} \cup
    {c \in {"next"} : ~u.nextDisabled}

(* ---------------- requests in flight ---------------- *)
HasFreeSlot == \E s \in Slots : inflight[s].pc = "idle"
FreeSlot == CHOOSE s \in Slots :
               inflight[s].pc = "idle" /\ \A t \in Slots : t < s => inflight[t].pc # "idle"

Cont(pc, ch, idx) == [Idle EXCEPT !.pc = pc, !.ch = ch, !.idx = idx]

Await(s, c) == inflight' = [inflight EXCEPT ![s] = c]
Finish(s) == inflight' = [inflight EXCEPT ![s] = Idle]

(* the status response finds currentBeats null: both branches after the
   items loop dereference it and throw a TypeError *)
AudioThrows == currentBeats.len = NoBeats

CanEvent == events < MaxEvents

(* ---------------- audio status (refreshAudioStatusForChapter) ---------------- *)
ItemShapes ==
    { [exists |-> FALSE, status |-> "",           url |-> ""],
      [exists |-> FALSE, status |-> "generating", url |-> ""],
      [exists |-> FALSE, status |-> "error",      url |-> ""],
      [exists |-> TRUE,  status |-> "ready",      url |-> "srv"],
      [exists |-> TRUE,  status |-> "",           url |-> ""] }

Items == { [beat_index |-> i, provider |-> p, exists |-> sh.exists,
            status |-> sh.status, url |-> sh.url] :
              i \in BeatIdx, p \in TTS_PROVIDERS, sh \in ItemShapes }

StatusResponses == {<<>>} \cup { <<it>> : it \in Items }

(* a record that always takes the url the client builds for the job *)
ItemRecordBuiltUrl(it) ==
    [exists |-> it.exists,
     status |-> IF it.status # "" THEN it.status
                ELSE IF it.exists THEN "ready" ELSE "missing",
     url    |-> IF it.exists THEN "wav" ELSE ""]

ItemRecord(it) ==
    [exists |-> it.exists,
     status |-> IF it.status # "" THEN it.status
                ELSE IF it.exists THEN "ready" ELSE "missing",
     url    |-> IF it.url # "" THEN it.url ELSE IF it.exists THEN "wav" ELSE ""]

(* an items loop that copies the reported status and keeps the rest of the
   prior record *)
RECURSIVE ApplyItemsStatusOnly(_, _)
ApplyItemsStatusOnly(audio, items) ==
    IF items = <<>> THEN audio
    ELSE LET it == Head(items) IN
         ApplyItemsStatusOnly(
             [audio EXCEPT ![it.beat_index][it.provider].status = ItemRecord(it).status],
             Tail(items))

RECURSIVE ApplyItems(_, _)
ApplyItems(audio, items) ==
    IF items = <<>> THEN audio
    ELSE LET it == Head(items) IN
         ApplyItems([audio EXCEPT ![it.beat_index][it.provider] = ItemRecord(it)],
                    Tail(items))

RECURSIVE NeedRerender(_, _)
NeedRerender(audio, items) ==
    IF items = <<>> THEN FALSE
    ELSE LET it == Head(items) IN
         \/ (~audio[it.beat_index][it.provider].exists /\ it.exists)
         \/ NeedRerender([audio EXCEPT ![it.beat_index][it.provider] = ItemRecord(it)],
                         Tail(items))

RECURSIVE updateAllRows(_, _, _)
updateAllRows(u, n, audio) ==
    IF n <= 0 THEN u
    ELSE updateBeatAudioRowUI(updateAllRows(u, n - 1, audio), n - 1, audio)

(* the controls after a status response was applied *)
RefreshUI(u, beats, texts, audioBefore, items) ==
    IF NeedRerender(audioBefore, items)
    THEN renderWriteBeats(u, beats, texts, ApplyItems(audioBefore, items))
    ELSE updateAllRows(u, beats.len, ApplyItems(audioBefore, items))

(* a scan that also counts failed jobs as still running *)
stillGeneratingOrFailed(audio) ==
    \E i \in BeatIdx : \E p \in TTS_PROVIDERS :
        audio[i][p].status \in {"generating", "error"}

stillGenerating(audio) ==
    \E i \in BeatIdx : \E p \in TTS_PROVIDERS : audio[i][p].status = "generating"

(* ---------------- /state responses ---------------- *)
WrittenUpTo(k) == [i \in BeatIdx |-> IF i < k THEN 1 ELSE NoText]

(* beat_texts of a response: a written prefix, or all written but one entry
   that is blank or not a string *)
TextMaps ==
    { WrittenUpTo(k) : k \in 0..MaxBeats } \cup
    { [WrittenUpTo(MaxBeats) EXCEPT ![i] = v] : i \in BeatIdx, v \in {Blank, BadText} }

(* the chapter part of a /state response *)
ChapterResponses ==
    [beats : {NoBeats} \cup (0..MaxBeats), beat_texts : TextMaps]

FullChapter == [beats |-> MaxBeats, beat_texts |-> WrittenUpTo(MaxBeats)]

StateResponse(chapter, selected, plot, characters, c) ==
    [chapter |-> chapter, selected |-> selected, plot |-> plot,
     characters |-> characters, beats |-> c.beats, beat_texts |-> c.beat_texts]

(* bootstrap responses that vary the pipeline stages; chapter 0: no numeric
   chapter field *)
PipeStateResponses ==
    { StateResponse(ch, sel, plot, chars, c) :
        ch \in 0..(MaxChapters + 1), sel \in BOOLEAN,
        plot \in {NoPlot} \cup (0..MaxChapters), chars \in {NoChars, 0, 1},
        c \in { [beats |-> NoBeats, beat_texts |-> WrittenUpTo(0)], FullChapter } }

(* bootstrap responses of a project with an outline, that vary the chapter *)
BeatStateResponses ==
    { StateResponse(1, TRUE, MaxChapters, 1, c) : c \in ChapterResponses }

(* bootstrap response of a project whose first chapter is written *)
AudioStateResponses ==
    { StateResponse(1, TRUE, MaxChapters, 1, FullChapter) }

(* bootstrap responses of a project whose first chapter is planned and
   written up to some beat *)
PlannedStateResponses ==
    { StateResponse(1, TRUE, MaxChapters, 1,
                    [beats |-> MaxBeats, beat_texts |-> WrittenUpTo(k)]) : k \in 0..MaxBeats }

LoadedChapterResponses ==
    { [beats |-> NoBeats, beat_texts |-> WrittenUpTo(0)], FullChapter }

(* status responses that report at most that some audio exists *)
ExistsResponses ==
    {<<>>} \cup { <<it>> : it \in { x \in Items : x.exists /\ x.status = "ready"
                                                  /\ x.provider = "piper" } }

(* status responses of a chapter load: some audio exists, or a job is still
   running on the server *)
LoadStatusResponses ==
    ExistsResponses \cup
    { <<it>> : it \in { x \in Items : ~x.exists /\ x.status = "generating"
                                        /\ x.provider = "piper" /\ x.beat_index = 0 } }

(* status responses of a server on which the job of beat 0 never finishes *)
GeneratingResponses ==
    {<<>>} \cup
    { <<it>> : it \in { x \in Items : ~x.exists /\ x.status = "generating"
                                        /\ x.provider = "piper" /\ x.beat_index = 0 } }

(* ---------------- initial state ---------------- *)
InitUI == [prevDisabled |-> FALSE, nextDisabled |-> FALSE, step5Disabled |-> FALSE,
           planDisabled |-> FALSE, charsDisabled |-> FALSE, beatBtnsDisabled |-> FALSE,
           refineDisabled |-> FALSE, cards |-> FALSE,
           rows |-> {}, written |-> {}, audioRows |-> {},
           genBtns |-> {}, genEnabled |-> {}, audioShown |-> {},
           loaded |-> {}, reports |-> 0, step |-> ""]

(* ================= dialogue tokenizer: highlightDialogueToHtml ================= *)
(* A text is a sequence of characters. The alphabet has one character of each
   kind the tokenizer tells apart: a word character, a space, the
   ampersand, the straight double quote (written DQ), the straight single
   quote, the two curly quotes and the backslash. *)
DQ  == "dq"           \* U+0022, the straight double quote
SQ  == "'"            \* U+0027, the straight single quote
LDQ == "ldquo"        \* U+201C, the opening curly quote
RDQ == "rdquo"        \* U+201D, the closing curly quote
BS  == "\\"           \* the backslash
NoChar == "null"      \* prev / next / raw[k] outside the text

WordChars == {"a"}    \* /[A-Za-z0-9_]/
Alphabet == WordChars \cup {" ", "&", DQ, SQ, LDQ, RDQ, BS}
TokInputs == UNION {[1..n -> Alphabet] : n \in 0..MaxLen}

(* raw[k], 0-based as in the source *)
At(raw, k) == IF k >= 0 /\ k < Len(raw) THEN raw[k + 1] ELSE NoChar

(* a slice that leaves out its last character *)
sliceShort(raw, a, b) == SubSeq(raw, a + 1, b - 1)
(* raw.slice(a, b) *)
slice(raw, a, b) == SubSeq(raw, a + 1, b)

replaceAll(s, from, to) == [k \in DOMAIN s |-> IF s[k] = from THEN to ELSE s[k]]

(* an escape that forgets the two quote characters *)
escapeHTMLNoQuotes(s) ==
    replaceAll(replaceAll(replaceAll(s, "&", "&amp;"), "<", "&lt;"), ">", "&gt;")
(* every character becomes one element of the result: itself or its entity *)
escapeHTML(s) ==
    replaceAll(replaceAll(replaceAll(replaceAll(replaceAll(s,
        "&", "&amp;"), "<", "&lt;"), ">", "&gt;"), DQ, "&quot;"), SQ, "&#039;")

isWordChar(ch) == ch # NoChar /\ ch \in WordChars
(* a test that takes every position for a boundary *)
isBoundaryAlways(ch) == TRUE
isBoundary(ch) == ch = NoChar \/ ~isWordChar(ch)

(* the inner while loops: j stops at the first of the positions that close
   the span, or at raw.length *)
ScanTo(raw, hits) ==
    IF hits = {} THEN Len(raw)
    ELSE CHOOSE j \in hits : \A k \in hits : j <= k

curlyClose(raw, j) == At(raw, j) = RDQ

(* a closing test that does not look at the character before the quote *)
doubleCloseAnyQuote(raw, j) == At(raw, j) = DQ
doubleClose(raw, j) == At(raw, j) = DQ /\ At(raw, j - 1) # BS

(* a closing test that only rules out the apostrophe inside a word *)
singleCloseNotApostrophe(raw, j) ==
    /\ At(raw, j) = SQ
    /\ ~(isWordChar(At(raw, j - 1)) /\ isWordChar(At(raw, j + 1)))
singleClose(raw, j) ==
    /\ At(raw, j) = SQ
    /\ LET before == At(raw, j - 1)
           after  == At(raw, j + 1)
           isApostropheInWord == isWordChar(before) /\ isWordChar(after)
           isClosingQuote == ~isApostropheInWord /\ isBoundary(after)
       IN  isClosingQuote

(* the three branches of one iteration at position i: the index of the
   closing delimiter of the span that starts at i, or raw.length when the
   iteration falls through to the literal character *)
spanEnd(raw, i) ==
    LET ch   == At(raw, i)
        prev == IF i > 0 THEN At(raw, i - 1) ELSE NoChar
        after == (i + 1)..(Len(raw) - 1)
        jc   == ScanTo(raw, {j \in after : curlyClose(raw, j)})
        jd   == ScanTo(raw, {j \in after : doubleClose(raw, j)})
        js   == ScanTo(raw, {j \in after : singleClose(raw, j)})
    IN  IF ch = LDQ /\ jc < Len(raw) THEN jc
        ELSE IF ch = DQ /\ isBoundary(prev) /\ jd < Len(raw) THEN jd
        ELSE IF ch = SQ /\ isBoundary(prev) /\ js < Len(raw) THEN js
        ELSE Len(raw)

(* raw = String(raw || ""); out = ""; i = 0. An element of out is one
   addition to the output: its escaped text and whether it is wrapped in
   <span class="dlg"> *)
TokStart(raw) == [raw |-> raw, out |-> << >>, i |-> 0]

(* module state as declared, DOMContentLoaded has called loadStateOnStart *)
InitApp ==
    /\ selectedData = FALSE
    /\ currentPlotData = NoPlot
    /\ currentCharacters = NoChars
    /\ currentChapter = 1
    /\ currentBeats = NullBeats
    /\ beatTexts = EmptyTexts
    /\ beatAudio = EmptyAudio
    /\ audioPollTimer = NoTimer
    /\ audioPollInFlight = FALSE
    /\ audioPollChapter = NoChapter
    /\ timers = {}
    /\ inflight = [s \in Slots |-> IF s = 1 THEN Cont("boot_state", 1, 0) ELSE Idle]
    /\ ui = InitUI
    /\ events = 0
    /\ last = Last("init", 0, 0)

(* no text is being highlighted *)
Init == InitApp /\ tok = TokStart(<< >>)

(* ================= bootstrap: loadStateOnStart ================= *)
(* a choice of step that looks at the outline before the roster *)
bootStepOutlineFirst(beats, characters, plot) ==
    IF beats.len # NoBeats THEN "step-5"
    ELSE IF plot # NoPlot THEN "step-2"
    ELSE IF characters # NoChars /\ characters > 0 THEN "step-3"
    ELSE "step-1"

(* the step loadStateOnStart opens last: beats is currentBeats, characters
   and plot are the fields of the response *)
bootStep(beats, characters, plot) ==
    IF beats.len # NoBeats THEN "step-5"
    ELSE IF characters # NoChars /\ characters > 0 THEN "step-3"
    ELSE IF plot # NoPlot THEN "step-2"
    ELSE "step-1"

BootStateOk(s, r) ==
    /\ inflight[s].pc = "boot_state"
    /\ LET cur   == IF r.chapter # 0 THEN r.chapter ELSE currentChapter
           sel   == r.selected \/ selectedData
           plot  == IF r.plot # NoPlot THEN r.plot ELSE currentPlotData
           chars == IF r.characters # NoChars THEN r.characters ELSE currentCharacters
           u0    == IF r.plot # NoPlot THEN [ui EXCEPT !.charsDisabled = FALSE] ELSE ui
           u1    == syncChapterUI(u0, sel, plot, cur)
           beats == [len |-> r.beats, ch |-> cur]
           texts == normalizeBeatTextsKeys(r.beat_texts, cur)
       IN /\ currentChapter' = cur
          /\ selectedData' = sel
          /\ currentPlotData' = plot
          /\ currentCharacters' = chars
          /\ IF r.beats # NoBeats
             THEN /\ currentBeats' = beats
                  /\ beatTexts' = texts
                  /\ beatAudio' = EmptyAudio
                  /\ IF hasBeatsPlanLoaded(beats)
                     THEN /\ Await(s, Cont("boot_audio", cur, 0))
                          /\ ui' = u1
                     ELSE /\ Finish(s)
                          /\ ui' = openStep(
                                     updatePlanButtonUI(
                                       setStep5Enabled(
                                         renderWriteBeats(u1, beats, texts, EmptyAudio), TRUE),
                                       sel, plot),
                                     bootStep(beats, r.characters, r.plot))
             ELSE /\ UNCHANGED <<currentBeats, beatTexts, beatAudio>>
                  /\ Finish(s)
                  /\ ui' = openStep(
                             updatePlanButtonUI(setStep5Enabled(u1, FALSE), sel, plot),
                             bootStep(currentBeats, r.characters, r.plot))
    /\ last' = Last("boot_state_ok", 0, r.chapter)
    /\ UNCHANGED <<pollVars, events>>

BootStateFail(s) ==
    /\ inflight[s].pc = "boot_state"
    /\ ui' = syncChapterUI(ui, selectedData, currentPlotData, currentChapter)
    /\ Finish(s)
    /\ last' = Last("boot_state_fail", 0, 0)
    /\ UNCHANGED <<pipeVars, currentChapter, currentBeats, beatTexts, beatAudio,
                   pollVars, events>>

BootAudioOk(s, items) ==
    /\ inflight[s].pc = "boot_audio"
    /\ beatAudio' = ApplyItems(beatAudio, items)
    /\ ui' = IF AudioThrows
             THEN syncChapterUI(ui, selectedData, currentPlotData, currentChapter)
             ELSE openStep(
                    updatePlanButtonUI(
                      setStep5Enabled(
                        renderWriteBeats(ui, currentBeats, beatTexts, beatAudio'), TRUE),
                      selectedData, currentPlotData),
                    bootStep(currentBeats, NoChars, NoPlot))   \* currentBeats is not null
    /\ Finish(s)
    /\ last' = Last("boot_audio_ok", 0, inflight[s].ch)
    /\ UNCHANGED <<pipeVars, currentChapter, currentBeats, beatTexts, pollVars, events>>

BootAudioFail(s) ==
    /\ inflight[s].pc = "boot_audio"
    /\ ui' = syncChapterUI(ui, selectedData, currentPlotData, currentChapter)
    /\ Finish(s)
    /\ last' = Last("boot_audio_fail", 0, inflight[s].ch)
    /\ UNCHANGED <<pipeVars, currentChapter, currentBeats, beatTexts, beatAudio,
                   pollVars, events>>

(* ================= chapter navigation: gotoChapter, loadChapterState ================= *)
NavButton(n) ==
    \/ n = currentChapter - 1 /\ ~ui.prevDisabled
    \/ n = currentChapter + 1 /\ ~ui.nextDisabled

GotoChapterNoop(n) ==
    /\ CanEvent /\ NavButton(n)
    /\ (totalChapters(currentPlotData) <= 0 \/ n < 1 \/ n > totalChapters(currentPlotData))
    /\ events' = events + 1
    /\ last' = Last("goto_noop", 0, n)
    /\ UNCHANGED <<pipeVars, currentChapter, currentBeats, beatTexts, beatAudio,
                   pollVars, inflight, ui>>

GotoChapter(n) ==
    /\ CanEvent /\ NavButton(n) /\ HasFreeSlot
    /\ ~(totalChapters(currentPlotData) <= 0 \/ n < 1 \/ n > totalChapters(currentPlotData))
    /\ currentChapter' = n
    /\ ui' = syncChapterUI(ui, selectedData, currentPlotData, n)
    /\ Await(FreeSlot, [Cont("load_state", n, 0) EXCEPT !.pre = currentChapter])
    /\ events' = events + 1
    /\ last' = Last("goto", 0, n)
    /\ UNCHANGED <<pipeVars, currentBeats, beatTexts, beatAudio, pollVars>>

LoadStateOk(s, r) ==
    /\ inflight[s].pc = "load_state"
    /\ LET c     == inflight[s].ch
           beats == [len |-> r.beats, ch |-> c]
           texts == normalizeBeatTextsKeys(r.beat_texts, c)
       IN IF r.beats # NoBeats
          THEN /\ currentBeats' = beats
               /\ beatTexts' = texts
               /\ beatAudio' = EmptyAudio
               /\ IF hasBeatsPlanLoaded(beats)
                  THEN /\ Await(s, [inflight[s] EXCEPT !.pc = "load_audio"])
                       /\ ui' = ui
                  ELSE /\ Finish(s)
                       /\ ui' = openStep(
                                  updatePlanButtonUI(
                                    setStep5Enabled(
                                      renderWriteBeats(ui, beats, texts, EmptyAudio), TRUE),
                                    selectedData, currentPlotData),
                                  "step-5")
          ELSE /\ currentBeats' = NullBeats
               /\ beatTexts' = EmptyTexts
               /\ beatAudio' = beatAudio
               /\ Finish(s)
               /\ ui' = openStep(
                          updatePlanButtonUI(setStep5Enabled(clearWriteList(ui), FALSE),
                                             selectedData, currentPlotData),
                          "step-4")
    /\ last' = Last("load_state_ok", 0, inflight[s].ch)
    /\ UNCHANGED <<pipeVars, currentChapter, pollVars, events>>

LoadStateFail(s) ==
    /\ inflight[s].pc = "load_state"
    /\ Finish(s)
    /\ last' = Last("load_state_fail", inflight[s].pre, inflight[s].ch)
    /\ UNCHANGED <<pipeVars, currentChapter, currentBeats, beatTexts, beatAudio,
                   pollVars, ui, events>>

LoadAudioOk(s, items) ==
    /\ inflight[s].pc = "load_audio"
    /\ beatAudio' = ApplyItems(beatAudio, items)
    /\ ui' = IF AudioThrows
             THEN RefreshUI(ui, currentBeats, beatTexts, beatAudio, <<>>)
             ELSE openStep(
                    updatePlanButtonUI(
                      setStep5Enabled(
                        renderWriteBeats(ui, currentBeats, beatTexts, beatAudio'), TRUE),
                      selectedData, currentPlotData),
                    "step-5")
    /\ Finish(s)
    /\ last' = Last("load_audio_ok", 0, inflight[s].ch)
    /\ UNCHANGED <<pipeVars, currentChapter, currentBeats, beatTexts, pollVars, events>>

LoadAudioFail(s) ==
    /\ inflight[s].pc = "load_audio"
    /\ Finish(s)
    /\ last' = Last("load_audio_fail", 0, inflight[s].ch)
    /\ UNCHANGED <<pipeVars, currentChapter, currentBeats, beatTexts, beatAudio,
                   pollVars, ui, events>>

(* ================= step 1: refineIdea and the variation cards ================= *)
RefineIdea ==
    /\ CanEvent /\ HasFreeSlot /\ ~ui.refineDisabled
    /\ selectedData' = FALSE
    /\ ui' = [ui EXCEPT !.refineDisabled = TRUE, !.cards = FALSE]
    /\ Await(FreeSlot, Cont("refine", NoChapter, 0))
    /\ events' = events + 1
    /\ last' = Last("refine", 0, 0)
    /\ UNCHANGED <<currentPlotData, currentCharacters, currentChapter, currentBeats,
                   beatTexts, beatAudio, pollVars>>

(* hasOptions: the response carries a non-empty options array *)
RefineDone(s, hasOptions) ==
    /\ inflight[s].pc = "refine"
    /\ ui' = [ui EXCEPT !.refineDisabled = FALSE, !.cards = hasOptions]
    /\ Finish(s)
    /\ last' = Last("refine_done", 0, 0)
    /\ UNCHANGED <<pipeVars, currentChapter, currentBeats, beatTexts, beatAudio,
                   pollVars, events>>

SelectIdea ==
    /\ CanEvent /\ ui.cards
    /\ selectedData' = TRUE
    /\ ui' = updatePlanButtonUI(openStep(ui, "step-1"), TRUE, currentPlotData)
    /\ events' = events + 1
    /\ last' = Last("select", 0, 0)
    /\ UNCHANGED <<currentPlotData, currentCharacters, currentChapter, currentBeats,
                   beatTexts, beatAudio, pollVars, inflight>>

(* ================= step 2: generatePlot ================= *)
GeneratePlot ==
    /\ CanEvent /\ HasFreeSlot
    /\ selectedData
    /\ ui' = [openStep(ui, "step-2") EXCEPT !.charsDisabled = TRUE]
    /\ Await(FreeSlot, Cont("plot", NoChapter, 0))
    /\ events' = events + 1
    /\ last' = Last("plot", 0, 0)
    /\ UNCHANGED <<pipeVars, currentChapter, currentBeats, beatTexts, beatAudio, pollVars>>

PlotOkState(n) ==
    /\ currentPlotData' = n
    /\ currentChapter' = 1
    /\ UNCHANGED <<selectedData, currentCharacters, currentBeats, beatTexts, beatAudio>>

GeneratePlotOk(s, n) ==
    /\ inflight[s].pc = "plot"
    /\ PlotOkState(n)
    /\ ui' = [syncChapterUI(ui, selectedData, n, 1) EXCEPT !.charsDisabled = FALSE]
    /\ Finish(s)
    /\ last' = Last("plot_ok", 0, n)
    /\ UNCHANGED <<pollVars, events>>

GeneratePlotFail(s) ==
    /\ inflight[s].pc = "plot"
    /\ Finish(s)
    /\ last' = Last("plot_fail", 0, 0)
    /\ UNCHANGED <<pipeVars, currentChapter, currentBeats, beatTexts, beatAudio,
                   pollVars, ui, events>>

(* ================= step 3: generateCharacters ================= *)
GenerateCharacters ==
    /\ CanEvent /\ HasFreeSlot /\ ~ui.charsDisabled
    /\ currentPlotData # NoPlot /\ selectedData
    /\ ui' = openStep(ui, "step-3")
    /\ Await(FreeSlot, Cont("chars", NoChapter, 0))
    /\ events' = events + 1
    /\ last' = Last("chars", 0, 0)
    /\ UNCHANGED <<pipeVars, currentChapter, currentBeats, beatTexts, beatAudio, pollVars>>

GenerateCharactersOk(s, n) ==
    /\ inflight[s].pc = "chars"
    /\ currentCharacters' = n
    /\ ui' = updatePlanButtonUI(ui, selectedData, currentPlotData)
    /\ Finish(s)
    /\ last' = Last("chars_ok", 0, n)
    /\ UNCHANGED <<selectedData, currentPlotData, currentChapter, currentBeats,
                   beatTexts, beatAudio, pollVars, events>>

GenerateCharactersFail(s) ==
    /\ inflight[s].pc = "chars"
    /\ Finish(s)
    /\ last' = Last("chars_fail", 0, 0)
    /\ UNCHANGED <<pipeVars, currentChapter, currentBeats, beatTexts, beatAudio,
                   pollVars, ui, events>>

(* ================= step 4: planCurrentChapter ================= *)
PlanGuard ==
    /\ totalChapters(currentPlotData) > 0 /\ selectedData
    /\ currentChapter <= totalChapters(currentPlotData)

PlanNoop ==
    /\ CanEvent /\ ~ui.planDisabled
    /\ ~PlanGuard
    /\ events' = events + 1
    /\ last' = Last("plan_noop", 0, currentChapter)
    /\ UNCHANGED <<pipeVars, currentChapter, currentBeats, beatTexts, beatAudio,
                   pollVars, inflight, ui>>

PlanCurrentChapter ==
    /\ CanEvent /\ ~ui.planDisabled /\ HasFreeSlot
    /\ PlanGuard
    /\ ui' = setStep5Enabled(openStep(ui, "step-4"), FALSE)
    /\ Await(FreeSlot, [Cont("plan_req", currentChapter, 0) EXCEPT !.on = ControlsOn(ui)])
    /\ events' = events + 1
    /\ last' = Last("plan", 0, currentChapter)
    /\ UNCHANGED <<pipeVars, currentChapter, currentBeats, beatTexts, beatAudio, pollVars>>

(* the plan arrived: currentBeats = data.beats || [], then the clear_from
   request for the chapter that is current now *)
PlanOk(s, len) ==
    /\ inflight[s].pc = "plan_req"
    /\ currentBeats' = [len |-> len, ch |-> inflight[s].ch]
    /\ Await(s, [inflight[s] EXCEPT !.pc = "plan_clear", !.ch = currentChapter,
                                    !.pre = inflight[s].ch])
    /\ last' = Last("plan_ok", len, inflight[s].ch)
    /\ UNCHANGED <<pipeVars, currentChapter, beatTexts, beatAudio, pollVars, ui, events>>

PlanFail(s) ==
    /\ inflight[s].pc = "plan_req"
    /\ ui' = updatePlanButtonUI(ui, selectedData, currentPlotData)
    /\ Finish(s)
    /\ last' = Last("plan_fail", 0, inflight[s].ch)
    /\ UNCHANGED <<pipeVars, currentChapter, currentBeats, beatTexts, beatAudio,
                   pollVars, events>>

(* after the clear_from request, whatever its outcome (catch (_) {}) *)
PlanAfterClear(s, op) ==
    /\ inflight[s].pc = "plan_clear"
    /\ beatTexts' = EmptyTexts
    /\ IF currentBeats.len = NoBeats
       THEN \* renderBeats(null) throws: catch, finally
            /\ beatAudio' = beatAudio
            /\ ui' = updatePlanButtonUI(ui, selectedData, currentPlotData)
            /\ Finish(s)
       ELSE /\ beatAudio' = EmptyAudio
            /\ IF hasBeatsPlanLoaded(currentBeats)
               THEN /\ Await(s, [inflight[s] EXCEPT !.pc = "plan_audio",
                                                    !.ch = currentChapter])
                    /\ ui' = ui
               ELSE /\ Finish(s)
                    /\ ui' = openStep(
                               updatePlanButtonUI(
                                 setStep5Enabled(
                                   renderWriteBeats(ui, currentBeats, EmptyTexts, EmptyAudio),
                                   TRUE),
                                 selectedData, currentPlotData),
                               "step-5")
    /\ last' = Last(op, 0, inflight[s].ch)
    /\ UNCHANGED <<pipeVars, currentChapter, currentBeats, pollVars, events>>

PlanClearOk(s) == PlanAfterClear(s, "plan_clear_ok")

(* a clear_from failure that is not caught where it happens: it reaches the
   catch block of planCurrentChapter *)
PlanClearFatal(s) ==
    /\ inflight[s].pc = "plan_clear"
    /\ ui' = updatePlanButtonUI(ui, selectedData, currentPlotData)
    /\ Finish(s)
    /\ last' = Last("plan_clear_fail", 0, inflight[s].ch)
    /\ UNCHANGED <<pipeVars, currentChapter, currentBeats, beatTexts, beatAudio,
                   pollVars, events>>

PlanClearFail(s) == PlanAfterClear(s, "plan_clear_fail")

PlanAudioOk(s, items) ==
    /\ inflight[s].pc = "plan_audio"
    /\ beatAudio' = ApplyItems(beatAudio, items)
    /\ ui' = IF AudioThrows
             THEN updatePlanButtonUI(ui, selectedData, currentPlotData)
             ELSE openStep(
                    updatePlanButtonUI(
                      setStep5Enabled(
                        renderWriteBeats(ui, currentBeats, beatTexts, beatAudio'), TRUE),
                      selectedData, currentPlotData),
                    "step-5")
    /\ Finish(s)
    /\ last' = Last(IF AudioThrows THEN "plan_audio_throw" ELSE "plan_done", 0, inflight[s].ch)
    /\ UNCHANGED <<pipeVars, currentChapter, currentBeats, beatTexts, pollVars, events>>

PlanAudioFail(s) ==
    /\ inflight[s].pc = "plan_audio"
    /\ ui' = updatePlanButtonUI(ui, selectedData, currentPlotData)
    /\ Finish(s)
    /\ last' = Last("plan_audio_fail", 0, inflight[s].ch)
    /\ UNCHANGED <<pipeVars, currentChapter, currentBeats, beatTexts, beatAudio,
                   pollVars, events>>

(* ================= step 5: write, clear, clear-from ================= *)
(* a clear of one beat that also drops every later beat *)
ClearBeatTextsFrom(texts, idx) ==
    [i \in BeatIdx |-> IF i >= idx THEN NoText ELSE texts[i]]

(* delete beatTexts[idx] *)
ClearBeatTexts(texts, idx) ==
    [i \in BeatIdx |-> IF i = idx THEN NoText ELSE texts[i]]

(* a clear-from that keeps the beat it was asked to start at *)
ClearFromTextsAfter(texts, fromIdx) ==
    [i \in BeatIdx |-> IF i > fromIdx THEN NoText ELSE texts[i]]

ClearFromTexts(texts, fromIdx) ==
    [i \in BeatIdx |-> IF i >= fromIdx THEN NoText ELSE texts[i]]

EnableControls(u) == disableWriteControls(u, FALSE, currentPlotData, currentChapter)

(* a last-beat test that is off by one *)
isLastBeatOffByOne(beatIndex, beats) == beatIndex = beats.len

(* beatIndex === currentBeats.length - 1 *)
isLastBeat(beatIndex, beats) == beatIndex = beats.len - 1

(* writeBeat(i) entered in slot s with the controls u, from the control ctl *)
WriteBeatStart(s, i, u, ctl) ==
    IF ~hasBeatsPlanLoaded(currentBeats)
    THEN /\ Finish(s)
         /\ ui' = u
    ELSE /\ Await(s, [Cont("wb_req", currentChapter, i) EXCEPT
                         !.nxt = inflight[s].nxt, !.snap = inflight[s].snap,
                         !.ctl = ctl, !.before = beatTexts'])
         /\ ui' = disableWriteControls(openStep(u, "step-5"), TRUE,
                                       currentPlotData, currentChapter)

(* the first index >= from that the loop of generateAllBeats does not skip;
   the length of the plan when there is none *)
nextToGenerate(beats, texts, from) ==
    IF \E i \in from..(beats.len - 1) : i \in BeatIdx /\ ~IsWritten(texts[i])
    THEN CHOOSE i \in from..(beats.len - 1) :
            /\ i \in BeatIdx /\ ~IsWritten(texts[i])
            /\ \A j \in from..(i - 1) : IsWritten(texts[j])
    ELSE beats.len

(* the loop of generateAllBeats, entered or resumed in slot s at index from
   with the controls u: up to the next write request, or to the continuity
   request when no beat is left *)
GenerateAllLoop(s, from, u) ==
    IF currentBeats.len = NoBeats
    THEN /\ Finish(s)                         \* currentBeats.length throws
         /\ ui' = disableWriteControls(u, FALSE, currentPlotData, currentChapter)
    ELSE LET j == nextToGenerate(currentBeats, beatTexts', from) IN
         /\ Await(s, [Cont(IF j < currentBeats.len THEN "ga_req" ELSE "ga_cont",
                            currentChapter, j)
                         EXCEPT !.ctl = "all"])
         /\ ui' = u

(* clearFrom(fromIdx) returned in slot s; the write click that awaited it goes
   on to writeBeat, generateAllBeats goes on to its loop *)
ClearFromReturn(s, u) ==
    IF inflight[s].ctl = "all"
    THEN GenerateAllLoop(s, 0, disableWriteControls(u, TRUE, currentPlotData, currentChapter))
    ELSE IF inflight[s].nxt >= 0
    THEN WriteBeatStart(s, inflight[s].nxt, EnableControls(u), inflight[s].ctl)
    ELSE /\ Finish(s)
         /\ ui' = EnableControls(u)

(* clearFrom(fromIdx) entered with the controls u, from the control ctl *)
ClearFromStart(fromIdx, nxt, ctl, u) ==
    /\ ui' = disableWriteControls(u, TRUE, currentPlotData, currentChapter)
    /\ Await(FreeSlot, [Cont("cf_req", currentChapter, fromIdx) EXCEPT
                           !.nxt = nxt,
                           !.ctl = ctl,
                           !.snap = IF nxt >= 0 THEN beatTexts ELSE EmptyTexts,
                           !.before = IF fromIdx = 0 THEN beatTexts ELSE EmptyTexts])

BeatButton(i) == i \in ui.rows /\ ~ui.beatBtnsDisabled

(* click on Write / Rewrite of row i *)
WriteClick(i) ==
    /\ CanEvent /\ HasFreeSlot /\ BeatButton(i)
    /\ UNCHANGED <<pipeVars, currentChapter, currentBeats, beatTexts, beatAudio, pollVars>>
    /\ IF IsWritten(beatTexts[i])
       THEN ClearFromStart(i + 1, i, "write", ui)
       ELSE WriteBeatStart(FreeSlot, i, ui, "write")
    /\ events' = events + 1
    /\ last' = Last(IF IsWritten(beatTexts[i]) THEN "rewrite_click" ELSE "write_click",
                    i, currentChapter)

WriteNextBeat ==
    /\ CanEvent /\ HasFreeSlot /\ ~ui.step5Disabled
    /\ UNCHANGED <<pipeVars, currentChapter, currentBeats, beatTexts, beatAudio, pollVars>>
    /\ firstUnwrittenIndex(currentBeats, beatTexts) >= 0
    /\ WriteBeatStart(FreeSlot, firstUnwrittenIndex(currentBeats, beatTexts), ui, "next")
    /\ events' = events + 1
    /\ last' = Last("write_next", firstUnwrittenIndex(currentBeats, beatTexts),
                    currentChapter)

ClearFromClick(i) ==
    /\ CanEvent /\ HasFreeSlot /\ BeatButton(i) /\ i \in ui.written
    /\ ClearFromStart(i, -1, "", ui)
    /\ events' = events + 1
    /\ last' = Last("clear_from_click", i, currentChapter)
    /\ UNCHANGED <<pipeVars, currentChapter, currentBeats, beatTexts, beatAudio, pollVars>>

ClearAllBeats ==
    /\ CanEvent /\ HasFreeSlot /\ ~ui.step5Disabled
    /\ hasBeatsPlanLoaded(currentBeats)
    /\ ClearFromStart(0, -1, "clear_all", openStep(ui, "step-5"))
    /\ events' = events + 1
    /\ last' = Last("clear_all", 0, currentChapter)
    /\ UNCHANGED <<pipeVars, currentChapter, currentBeats, beatTexts, beatAudio, pollVars>>

(* click on Generate all: when every beat is written, clearAllBeats first *)
GenerateAllBeats ==
    /\ CanEvent /\ HasFreeSlot /\ ~ui.step5Disabled
    /\ hasBeatsPlanLoaded(currentBeats)
    /\ UNCHANGED <<pipeVars, currentChapter, currentBeats, beatTexts, beatAudio, pollVars>>
    /\ IF firstUnwrittenIndex(currentBeats, beatTexts) < 0
       THEN ClearFromStart(0, -1, "all", openStep(ui, "step-5"))
       ELSE GenerateAllLoop(FreeSlot, firstUnwrittenIndex(currentBeats, beatTexts),
                            disableWriteControls(openStep(ui, "step-5"), TRUE,
                                                 currentPlotData, currentChapter))
    /\ events' = events + 1
    /\ last' = Last("generate_all", firstUnwrittenIndex(currentBeats, beatTexts),
                    currentChapter)

(* the text of one beat of the loop arrived *)
GenerateAllWriteOk(s, blank) ==
    /\ inflight[s].pc = "ga_req"
    /\ UNCHANGED <<pipeVars, currentChapter, currentBeats, beatAudio, pollVars, events>>
    /\ beatTexts' = [beatTexts EXCEPT
                       ![inflight[s].idx] = IF blank THEN Blank ELSE TextOf(inflight[s].ch)]
    /\ GenerateAllLoop(s, inflight[s].idx + 1,
                       IF currentBeats.len = NoBeats THEN ui
                       ELSE renderWriteBeats(ui, currentBeats, beatTexts', beatAudio))
    /\ last' = Last("generate_all_ok", inflight[s].idx, inflight[s].ch)

GenerateAllWriteFail(s) ==
    /\ inflight[s].pc = "ga_req"
    /\ Finish(s)
    /\ ui' = EnableControls(ui)
    /\ last' = Last("generate_all_fail", inflight[s].idx, inflight[s].ch)
    /\ UNCHANGED <<pipeVars, currentChapter, currentBeats, beatTexts, beatAudio,
                   pollVars, events>>

(* the continuity request of generateAllBeats: its failure is caught inside *)
GenerateAllDone(s, ok) ==
    /\ inflight[s].pc = "ga_cont"
    /\ Finish(s)
    /\ ui' = EnableControls(ui)
    /\ last' = Last(IF ok THEN "generate_all_done" ELSE "generate_all_continuity_fail",
                    inflight[s].idx, inflight[s].ch)
    /\ UNCHANGED <<pipeVars, currentChapter, currentBeats, beatTexts, beatAudio,
                   pollVars, events>>

ClearFromOk(s) ==
    /\ inflight[s].pc = "cf_req"
    /\ beatTexts' = ClearFromTexts(beatTexts, inflight[s].idx)
    /\ IF currentBeats.len = NoBeats
       THEN ClearFromReturn(s, ui)            \* renderWriteBeats(null) throws
       ELSE IF hasBeatsPlanLoaded(currentBeats)
            THEN /\ Await(s, [inflight[s] EXCEPT !.pc = "cf_audio", !.ch = currentChapter])
                 /\ ui' = renderWriteBeats(ui, currentBeats, beatTexts', beatAudio)
            ELSE ClearFromReturn(s, renderWriteBeats(ui, currentBeats, beatTexts', beatAudio))
    /\ last' = Last("clear_from_ok", inflight[s].idx, inflight[s].ch)
    /\ UNCHANGED <<pipeVars, currentChapter, currentBeats, beatAudio, pollVars, events>>

ClearFromFail(s) ==
    /\ inflight[s].pc = "cf_req"
    /\ UNCHANGED <<pipeVars, currentChapter, currentBeats, beatTexts, beatAudio,
                   pollVars, events>>
    /\ ClearFromReturn(s, ui)
    /\ last' = Last("clear_from_fail", inflight[s].idx, inflight[s].ch)

ClearFromAudioOk(s, items) ==
    /\ inflight[s].pc = "cf_audio"
    /\ UNCHANGED <<pipeVars, currentChapter, currentBeats, beatTexts, pollVars, events>>
    /\ beatAudio' = ApplyItems(beatAudio, items)
    /\ ClearFromReturn(s, IF AudioThrows THEN ui
                          ELSE RefreshUI(ui, currentBeats, beatTexts, beatAudio, items))
    /\ last' = Last("clear_from_done", inflight[s].idx, inflight[s].ch)

ClearFromAudioFail(s) ==
    /\ inflight[s].pc = "cf_audio"
    /\ UNCHANGED <<pipeVars, currentChapter, currentBeats, beatTexts, beatAudio,
                   pollVars, events>>
    /\ ClearFromReturn(s, ui)
    /\ last' = Last("clear_from_audio_fail", inflight[s].idx, inflight[s].ch)

ClearBeatClick(i) ==
    /\ CanEvent /\ HasFreeSlot /\ BeatButton(i) /\ i \in ui.written
    /\ ui' = disableWriteControls(ui, TRUE, currentPlotData, currentChapter)
    /\ Await(FreeSlot, [Cont("cb_req", currentChapter, i) EXCEPT !.before = beatTexts])
    /\ events' = events + 1
    /\ last' = Last("clear_click", i, currentChapter)
    /\ UNCHANGED <<pipeVars, currentChapter, currentBeats, beatTexts, beatAudio, pollVars>>

ClearBeatOk(s) ==
    /\ inflight[s].pc = "cb_req"
    /\ beatTexts' = ClearBeatTexts(beatTexts, inflight[s].idx)
    /\ IF currentBeats.len = NoBeats
       THEN /\ Finish(s)
            /\ ui' = EnableControls(ui)
       ELSE IF hasBeatsPlanLoaded(currentBeats)
            THEN /\ Await(s, [inflight[s] EXCEPT !.pc = "cb_audio", !.ch = currentChapter])
                 /\ ui' = renderWriteBeats(ui, currentBeats, beatTexts', beatAudio)
            ELSE /\ Finish(s)
                 /\ ui' = EnableControls(
                            renderWriteBeats(ui, currentBeats, beatTexts', beatAudio))
    /\ last' = Last("clear_ok", inflight[s].idx, inflight[s].ch)
    /\ UNCHANGED <<pipeVars, currentChapter, currentBeats, beatAudio, pollVars, events>>

ClearBeatFail(s) ==
    /\ inflight[s].pc = "cb_req"
    /\ Finish(s)
    /\ ui' = EnableControls(ui)
    /\ last' = Last("clear_fail", inflight[s].idx, inflight[s].ch)
    /\ UNCHANGED <<pipeVars, currentChapter, currentBeats, beatTexts, beatAudio,
                   pollVars, events>>

ClearBeatAudioOk(s, items) ==
    /\ inflight[s].pc = "cb_audio"
    /\ beatAudio' = ApplyItems(beatAudio, items)
    /\ ui' = EnableControls(IF AudioThrows THEN ui
                            ELSE RefreshUI(ui, currentBeats, beatTexts, beatAudio, items))
    /\ Finish(s)
    /\ last' = Last("clear_done", inflight[s].idx, inflight[s].ch)
    /\ UNCHANGED <<pipeVars, currentChapter, currentBeats, beatTexts, pollVars, events>>

ClearBeatAudioFail(s) ==
    /\ inflight[s].pc = "cb_audio"
    /\ ui' = EnableControls(ui)
    /\ Finish(s)
    /\ last' = Last("clear_audio_fail", inflight[s].idx, inflight[s].ch)
    /\ UNCHANGED <<pipeVars, currentChapter, currentBeats, beatTexts, beatAudio,
                   pollVars, events>>

(* the text arrived: blank when data.text is missing or only white space *)
WriteBeatOk(s, blank) ==
    /\ inflight[s].pc = "wb_req"
    /\ beatTexts' = [beatTexts EXCEPT
                       ![inflight[s].idx] = IF blank THEN Blank ELSE TextOf(inflight[s].ch)]
    /\ IF currentBeats.len = NoBeats
       THEN /\ Finish(s)
            /\ ui' = EnableControls(ui)
       ELSE IF hasBeatsPlanLoaded(currentBeats)
            THEN /\ Await(s, [inflight[s] EXCEPT !.pc = "wb_audio", !.ch = currentChapter])
                 /\ ui' = renderWriteBeats(ui, currentBeats, beatTexts', beatAudio)
            ELSE /\ Finish(s)
                 /\ ui' = EnableControls(
                            renderWriteBeats(ui, currentBeats, beatTexts', beatAudio))
    /\ last' = Last("write_ok", inflight[s].idx, inflight[s].ch)
    /\ UNCHANGED <<pipeVars, currentChapter, currentBeats, beatAudio, pollVars, events>>

WriteBeatFail(s) ==
    /\ inflight[s].pc = "wb_req"
    /\ Finish(s)
    /\ ui' = EnableControls(ui)
    /\ last' = Last("write_fail", inflight[s].idx, inflight[s].ch)
    /\ UNCHANGED <<pipeVars, currentChapter, currentBeats, beatTexts, beatAudio,
                   pollVars, events>>

WriteBeatAudioOk(s, items) ==
    /\ inflight[s].pc = "wb_audio"
    /\ beatAudio' = ApplyItems(beatAudio, items)
    /\ IF AudioThrows
       THEN /\ Finish(s)
            /\ ui' = EnableControls(ui)
       ELSE IF isLastBeat(inflight[s].idx, currentBeats)
            THEN /\ Await(s, [inflight[s] EXCEPT !.pc = "wb_cont", !.ch = currentChapter])
                 /\ ui' = RefreshUI(ui, currentBeats, beatTexts, beatAudio, items)
            ELSE /\ Finish(s)
                 /\ ui' = EnableControls(
                            RefreshUI(ui, currentBeats, beatTexts, beatAudio, items))
    /\ last' = Last("write_audio_ok", inflight[s].idx, inflight[s].ch)
    /\ UNCHANGED <<pipeVars, currentChapter, currentBeats, beatTexts, pollVars, events>>

WriteBeatAudioFail(s) ==
    /\ inflight[s].pc = "wb_audio"
    /\ Finish(s)
    /\ ui' = EnableControls(ui)
    /\ last' = Last("write_audio_fail", inflight[s].idx, inflight[s].ch)
    /\ UNCHANGED <<pipeVars, currentChapter, currentBeats, beatTexts, beatAudio,
                   pollVars, events>>

(* buildChapterContinuity: its failure is caught inside *)
ContinuityDone(s, ok) ==
    /\ inflight[s].pc = "wb_cont"
    /\ Finish(s)
    /\ ui' = EnableControls(ui)
    /\ last' = Last(IF ok THEN "continuity_ok" ELSE "continuity_fail",
                    inflight[s].idx, inflight[s].ch)
    /\ UNCHANGED <<pipeVars, currentChapter, currentBeats, beatTexts, beatAudio,
                   pollVars, events>>

(* ================= audio: generation requests and the poller ================= *)
(* a status change that drops the patch and keeps exists and url *)
setBeatAudioStatusNoPatch(audio, idx, provider, status) ==
    [audio EXCEPT ![idx][provider].status = status]

(* both call sites pass the patch { exists: false, url: "" } *)
setBeatAudioStatus(audio, idx, provider, status) ==
    [audio EXCEPT ![idx][provider] = [exists |-> FALSE, status |-> status, url |-> ""]]

(* a stop that forgets the timer without clearing it *)
clearIntervalForgotten(ts, id) == ts

clearInterval(ts, id) == {t \in ts : t.id # id}

TimerIdsInUse == {t.id : t \in timers} \cup {inflight[s].tid : s \in Slots}
FreshTimerId == CHOOSE n \in 1..(MaxInFlight + 2) :
                   n \notin TimerIdsInUse /\ \A m \in 1..(n - 1) : m \in TimerIdsInUse

(* stopAudioPoll() *)
StopAudioPoll ==
    /\ timers' = IF audioPollTimer # NoTimer THEN clearInterval(timers, audioPollTimer)
                 ELSE timers
    /\ audioPollTimer' = NoTimer
    /\ audioPollChapter' = NoChapter

(* startAudioPoll(chapterNum) *)
StartAudioPoll(chapterNum) ==
    IF audioPollTimer # NoTimer /\ audioPollChapter = chapterNum
    THEN UNCHANGED <<audioPollTimer, audioPollChapter, timers>>
    ELSE /\ timers' = (IF audioPollTimer # NoTimer
                       THEN clearInterval(timers, audioPollTimer) ELSE timers)
                      \cup {[id |-> FreshTimerId, ch |-> chapterNum]}
         /\ audioPollTimer' = FreshTimerId
         /\ audioPollChapter' = chapterNum

(* the provider lists the monitor may report *)
ProviderReports ==
    {{}, {"piper"}, {"qwen"}, {"xtts", "qwen"}}

(* updateMonitorUI writes the reported providers into #tts-providers; it does
   not touch the rows of the write list *)
SetActiveProvider(ps) ==
    /\ ui.reports < MaxReports /\ ps # ui.loaded
    /\ ui' = [ui EXCEPT !.loaded = ps, !.reports = ui.reports + 1]
    /\ events' = events
    /\ last' = Last("monitor", 0, 0)
    /\ UNCHANGED <<pipeVars, currentChapter, currentBeats, beatTexts, beatAudio,
                   pollVars, inflight>>

(* window.onTtsProvidersChanged *)
OnTtsProvidersChanged ==
    /\ CanEvent
    /\ ui' = updateAllRows(ui, currentBeats.len, beatAudio)
    /\ events' = events + 1
    /\ last' = Last("providers_changed", 0, 0)
    /\ UNCHANGED <<pipeVars, currentChapter, currentBeats, beatTexts, beatAudio,
                   pollVars, inflight>>

(* the Generate / Regenerate button of (i, p) is in the list and enabled *)
GenButton(i, p) == <<i, p>> \in ui.genEnabled

GenerateAudioClick(i, p) ==
    /\ CanEvent /\ HasFreeSlot /\ GenButton(i, p)
    /\ beatAudio' = setBeatAudioStatus(beatAudio, i, p, "generating")
    /\ ui' = updateBeatAudioRowUI(ui, i, beatAudio')
    /\ Await(FreeSlot, [Cont("gen_req", currentChapter, i) EXCEPT
                           !.prov = p, !.force = beatAudio'[i][p].exists])
    /\ events' = events + 1
    /\ last' = Last("gen_click", i, currentChapter)
    /\ UNCHANGED <<pipeVars, currentChapter, currentBeats, beatTexts, pollVars>>

GenerateAudioOk(s) ==
    /\ inflight[s].pc = "gen_req"
    /\ StartAudioPoll(currentChapter)
    /\ Finish(s)
    /\ last' = Last("gen_ok", inflight[s].idx, inflight[s].ch)
    /\ UNCHANGED <<pipeVars, currentChapter, currentBeats, beatTexts, beatAudio,
                   audioPollInFlight, ui, events>>

GenerateAudioFail(s) ==
    /\ inflight[s].pc = "gen_req"
    /\ beatAudio' = setBeatAudioStatus(beatAudio, inflight[s].idx, inflight[s].prov, "error")
    /\ ui' = updateBeatAudioRowUI(ui, inflight[s].idx, beatAudio')
    /\ Finish(s)
    /\ last' = Last("gen_fail", inflight[s].idx, inflight[s].ch)
    /\ UNCHANGED <<pipeVars, currentChapter, currentBeats, beatTexts, pollVars, events>>

(* an interval callback without the re-entrancy guard *)
TickGuardOff(inFlightFlag) == FALSE

(* the re-entrancy guard of the interval callback *)
TickGuard(inFlightFlag) == inFlightFlag

TickDropped(t) ==
    /\ CanEvent /\ t \in timers
    /\ TickGuard(audioPollInFlight)
    /\ events' = events + 1
    /\ last' = Last("tick_dropped", t.id, t.ch)
    /\ UNCHANGED <<pipeVars, currentChapter, currentBeats, beatTexts, beatAudio,
                   pollVars, inflight, ui>>

(* no plan loaded: refreshAudioStatusForChapter returns without a request *)
TickNoBeats(t) ==
    /\ CanEvent /\ t \in timers
    /\ ~TickGuard(audioPollInFlight)
    /\ ~hasBeatsPlanLoaded(currentBeats)
    /\ IF stillGenerating(beatAudio)
       THEN UNCHANGED <<audioPollTimer, audioPollChapter, timers>>
       ELSE StopAudioPoll
    /\ events' = events + 1
    /\ last' = Last("tick_nobeats", t.id, t.ch)
    /\ UNCHANGED <<pipeVars, currentChapter, currentBeats, beatTexts, beatAudio,
                   audioPollInFlight, inflight, ui>>

(* the interval callback up to its status request *)
TickRequest(t) ==
    /\ t \in timers /\ HasFreeSlot
    /\ ~TickGuard(audioPollInFlight)
    /\ hasBeatsPlanLoaded(currentBeats)
    /\ audioPollInFlight' = TRUE
    /\ Await(FreeSlot, [Cont("poll_audio", t.ch, 0) EXCEPT !.tid = t.id])
    /\ last' = Last("tick", t.id, t.ch)
    /\ UNCHANGED <<pipeVars, currentChapter, currentBeats, beatTexts, beatAudio,
                   audioPollTimer, audioPollChapter, timers, ui>>

Tick(t) ==
    /\ CanEvent
    /\ TickRequest(t)
    /\ events' = events + 1

(* a tick of the poller left to run: the interval fires every 3 s for as
   long as it is not cleared *)
PollTick(t) ==
    /\ TickRequest(t)
    /\ events' = events

PollAudioOk(s, items) ==
    /\ inflight[s].pc = "poll_audio"
    /\ beatAudio' = ApplyItems(beatAudio, items)
    /\ IF AudioThrows
       THEN /\ UNCHANGED <<audioPollTimer, audioPollChapter, timers>>
            /\ ui' = ui
       ELSE /\ IF stillGenerating(beatAudio')
               THEN UNCHANGED <<audioPollTimer, audioPollChapter, timers>>
               ELSE StopAudioPoll
            /\ ui' = RefreshUI(ui, currentBeats, beatTexts, beatAudio, items)
    /\ audioPollInFlight' = FALSE
    /\ Finish(s)
    /\ last' = Last(IF AudioThrows THEN "poll_throw" ELSE "poll_ok",
                    inflight[s].tid, inflight[s].ch)
    /\ UNCHANGED <<pipeVars, currentChapter, currentBeats, beatTexts, events>>

PollAudioFail(s) ==
    /\ inflight[s].pc = "poll_audio"
    /\ audioPollInFlight' = FALSE
    /\ Finish(s)
    /\ last' = Last("poll_fail", inflight[s].tid, inflight[s].ch)
    /\ UNCHANGED <<pipeVars, currentChapter, currentBeats, beatTexts, beatAudio,
                   audioPollTimer, audioPollChapter, timers, ui, events>>

(* ================= specifications ================= *)
(* the beat operations of one project: plan, write, clear, navigate *)
Next ==
    \/ \E s \in Slots : \E r \in BeatStateResponses : BootStateOk(s, r)
    \/ \E s \in Slots : BootStateFail(s)
    \/ \E s \in Slots : \E items \in ExistsResponses : BootAudioOk(s, items)
    \/ \E s \in Slots : BootAudioFail(s)
    \/ \E n \in 0..(MaxChapters + 1) : GotoChapterNoop(n)
    \/ \E n \in 0..(MaxChapters + 1) : GotoChapter(n)
    \/ \E s \in Slots : \E r \in LoadedChapterResponses : LoadStateOk(s, r)
    \/ \E s \in Slots : LoadStateFail(s)
    \/ \E s \in Slots : \E items \in ExistsResponses : LoadAudioOk(s, items)
    \/ \E s \in Slots : LoadAudioFail(s)
    \/ PlanNoop
    \/ PlanCurrentChapter
    \/ \E s \in Slots : \E len \in 0..MaxBeats : PlanOk(s, len)
    \/ \E s \in Slots : PlanFail(s)
    \/ \E s \in Slots : PlanClearOk(s)
    \/ \E s \in Slots : PlanClearFail(s)
    \/ \E s \in Slots : \E items \in ExistsResponses : PlanAudioOk(s, items)
    \/ \E s \in Slots : PlanAudioFail(s)
    \/ \E i \in BeatIdx : WriteClick(i)
    \/ WriteNextBeat
    \/ \E i \in BeatIdx : ClearFromClick(i)
    \/ ClearAllBeats
    \/ \E s \in Slots : ClearFromOk(s)
    \/ \E s \in Slots : ClearFromFail(s)
    \/ \E s \in Slots : \E items \in ExistsResponses : ClearFromAudioOk(s, items)
    \/ \E s \in Slots : ClearFromAudioFail(s)
    \/ \E i \in BeatIdx : ClearBeatClick(i)
    \/ \E s \in Slots : ClearBeatOk(s)
    \/ \E s \in Slots : ClearBeatFail(s)
    \/ \E s \in Slots : \E items \in ExistsResponses : ClearBeatAudioOk(s, items)
    \/ \E s \in Slots : ClearBeatAudioFail(s)
    \/ \E s \in Slots : \E blank \in BOOLEAN : WriteBeatOk(s, blank)
    \/ \E s \in Slots : WriteBeatFail(s)
    \/ \E s \in Slots : \E items \in ExistsResponses : WriteBeatAudioOk(s, items)
    \/ \E s \in Slots : WriteBeatAudioFail(s)
    \/ \E s \in Slots : \E ok \in BOOLEAN : ContinuityDone(s, ok)

Spec == Init /\ [][Next /\ events' <= MaxBeatEvents /\ UNCHANGED tok]_vars

(* the controls of step 5 on a planned chapter: plan again, write next,
   generate all, clear all *)
NextAll ==
    \/ \E s \in Slots : \E r \in PlannedStateResponses : BootStateOk(s, r)
    \/ \E s \in Slots : BootStateFail(s)
    \/ \E s \in Slots : \E items \in ExistsResponses : BootAudioOk(s, items)
    \/ \E s \in Slots : BootAudioFail(s)
    \/ PlanCurrentChapter
    \/ \E s \in Slots : \E len \in 0..MaxBeats : PlanOk(s, len)
    \/ \E s \in Slots : PlanFail(s)
    \/ \E s \in Slots : PlanClearOk(s)
    \/ \E s \in Slots : PlanClearFail(s)
    \/ \E s \in Slots : \E items \in ExistsResponses : PlanAudioOk(s, items)
    \/ \E s \in Slots : PlanAudioFail(s)
    \/ WriteNextBeat
    \/ ClearAllBeats
    \/ GenerateAllBeats
    \/ \E s \in Slots : \E blank \in BOOLEAN : GenerateAllWriteOk(s, blank)
    \/ \E s \in Slots : GenerateAllWriteFail(s)
    \/ \E s \in Slots : \E ok \in BOOLEAN : GenerateAllDone(s, ok)
    \/ \E s \in Slots : ClearFromOk(s)
    \/ \E s \in Slots : ClearFromFail(s)
    \/ \E s \in Slots : \E items \in ExistsResponses : ClearFromAudioOk(s, items)
    \/ \E s \in Slots : ClearFromAudioFail(s)
    \/ \E s \in Slots : \E blank \in BOOLEAN : WriteBeatOk(s, blank)
    \/ \E s \in Slots : WriteBeatFail(s)
    \/ \E s \in Slots : \E items \in ExistsResponses : WriteBeatAudioOk(s, items)
    \/ \E s \in Slots : WriteBeatAudioFail(s)
    \/ \E s \in Slots : \E ok \in BOOLEAN : ContinuityDone(s, ok)

SpecAll == Init /\ [][NextAll /\ events' <= MaxBeatEvents /\ UNCHANGED tok]_vars

(* the pipeline stages: bootstrap, idea, outline, cast, navigation *)
NextPipe ==
    \/ \E s \in Slots : \E r \in PipeStateResponses : BootStateOk(s, r)
    \/ \E s \in Slots : BootStateFail(s)
    \/ \E s \in Slots : \E items \in ExistsResponses : BootAudioOk(s, items)
    \/ \E s \in Slots : BootAudioFail(s)
    \/ RefineIdea
    \/ \E s \in Slots : \E hasOptions \in BOOLEAN : RefineDone(s, hasOptions)
    \/ SelectIdea
    \/ GeneratePlot
    \/ \E s \in Slots : \E n \in 0..MaxChapters : GeneratePlotOk(s, n)
    \/ \E s \in Slots : GeneratePlotFail(s)
    \/ GenerateCharacters
    \/ \E s \in Slots : \E n \in 0..1 : GenerateCharactersOk(s, n)
    \/ \E s \in Slots : GenerateCharactersFail(s)
    \/ PlanNoop
    \/ \E n \in 0..(MaxChapters + 1) : GotoChapterNoop(n)
    \/ \E n \in 0..(MaxChapters + 1) : GotoChapter(n)
    \/ \E s \in Slots : \E r \in LoadedChapterResponses : LoadStateOk(s, r)
    \/ \E s \in Slots : LoadStateFail(s)
    \/ \E s \in Slots : \E items \in ExistsResponses : LoadAudioOk(s, items)
    \/ \E s \in Slots : LoadAudioFail(s)

SpecPipe == Init /\ [][NextPipe /\ UNCHANGED tok]_vars

(* the audio jobs of a written chapter: generation requests, the poller,
   navigation *)
NextAudio ==
    \/ \E s \in Slots : \E r \in AudioStateResponses : BootStateOk(s, r)
    \/ \E s \in Slots : BootStateFail(s)
    \/ \E s \in Slots : \E items \in LoadStatusResponses : BootAudioOk(s, items)
    \/ \E s \in Slots : BootAudioFail(s)
    \/ \E ps \in ProviderReports : SetActiveProvider(ps)
    \/ \E i \in BeatIdx : \E p \in TTS_PROVIDERS : GenerateAudioClick(i, p)
    \/ \E s \in Slots : GenerateAudioOk(s)
    \/ \E s \in Slots : GenerateAudioFail(s)
    \/ \E t \in timers : TickDropped(t)
    \/ \E t \in timers : TickNoBeats(t)
    \/ \E t \in timers : Tick(t)
    \/ \E s \in Slots : \E items \in StatusResponses : PollAudioOk(s, items)
    \/ \E s \in Slots : PollAudioFail(s)
    \/ \E n \in 0..(MaxChapters + 1) : GotoChapterNoop(n)
    \/ \E n \in 0..(MaxChapters + 1) : GotoChapter(n)
    \/ \E s \in Slots : \E r \in LoadedChapterResponses : LoadStateOk(s, r)
    \/ \E s \in Slots : LoadStateFail(s)
    \/ \E s \in Slots : \E items \in LoadStatusResponses : LoadAudioOk(s, items)
    \/ \E s \in Slots : LoadAudioFail(s)

SpecAudio == Init /\ [][NextAudio /\ ui'.reports <= MaxAudioReports /\ UNCHANGED tok]_vars

(* the generate buttons of a written chapter while the monitor reports the
   loaded providers *)
NextGate ==
    \/ \E s \in Slots : \E r \in AudioStateResponses : BootStateOk(s, r)
    \/ \E s \in Slots : BootStateFail(s)
    \/ \E s \in Slots : \E items \in ExistsResponses : BootAudioOk(s, items)
    \/ \E s \in Slots : BootAudioFail(s)
    \/ \E ps \in ProviderReports : SetActiveProvider(ps)
    \/ OnTtsProvidersChanged
    \/ \E i \in BeatIdx : \E p \in TTS_PROVIDERS : GenerateAudioClick(i, p)
    \/ \E s \in Slots : GenerateAudioOk(s)
    \/ \E s \in Slots : GenerateAudioFail(s)

SpecGate == Init /\ [][NextGate /\ UNCHANGED tok]_vars

(* the poller left to run against a server that keeps reporting a job as
   generating, or keeps failing: ticks are not counted, every tick that is
   due fires and every status request gets its response or its failure *)
NextPoll ==
    \/ \E s \in Slots : \E r \in AudioStateResponses : BootStateOk(s, r)
    \/ \E s \in Slots : BootStateFail(s)
    \/ \E s \in Slots : \E items \in ExistsResponses : BootAudioOk(s, items)
    \/ \E s \in Slots : BootAudioFail(s)
    \/ \E ps \in ProviderReports : SetActiveProvider(ps)
    \/ \E i \in BeatIdx : \E p \in TTS_PROVIDERS : GenerateAudioClick(i, p)
    \/ \E s \in Slots : GenerateAudioOk(s)
    \/ \E s \in Slots : GenerateAudioFail(s)
    \/ \E t \in timers : PollTick(t)
    \/ \E s \in Slots : \E items \in GeneratingResponses : PollAudioOk(s, items)
    \/ \E s \in Slots : PollAudioFail(s)

SpecPoll ==
    /\ Init
    /\ [][NextPoll /\ ui'.reports <= MaxAudioReports /\ UNCHANGED tok]_vars
    /\ WF_vars((\E t \in timers : PollTick(t)) /\ UNCHANGED tok)
    /\ WF_vars((\E s \in Slots : \E items \in GeneratingResponses : PollAudioOk(s, items))
                  /\ UNCHANGED tok)
    /\ WF_vars((\E s \in Slots : PollAudioFail(s)) /\ UNCHANGED tok)

(* navigation between the chapters of a project whose backend answers every
   request: the chapter buttons and the loads they start *)
NextNav ==
    \/ \E s \in Slots : \E r \in PlannedStateResponses : BootStateOk(s, r)
    \/ \E s \in Slots : \E items \in ExistsResponses : BootAudioOk(s, items)
    \/ \E n \in 0..(MaxChapters + 1) : GotoChapterNoop(n)
    \/ \E n \in 0..(MaxChapters + 1) : GotoChapter(n)
    \/ \E s \in Slots : \E r \in LoadedChapterResponses : LoadStateOk(s, r)
    \/ \E s \in Slots : \E items \in ExistsResponses : LoadAudioOk(s, items)

SpecNav == Init /\ [][NextNav /\ UNCHANGED tok]_vars

(* the poller left to run while the user moves between written chapters
   and asks for audio on each: ticks are not counted *)
NextRestart ==
    \/ \E s \in Slots : \E r \in AudioStateResponses : BootStateOk(s, r)
    \/ \E s \in Slots : \E items \in ExistsResponses : BootAudioOk(s, items)
    \/ \E ps \in ProviderReports : SetActiveProvider(ps)
    \/ \E i \in BeatIdx : \E p \in TTS_PROVIDERS : GenerateAudioClick(i, p)
    \/ \E s \in Slots : GenerateAudioOk(s)
    \/ \E s \in Slots : GenerateAudioFail(s)
    \/ \E t \in timers : PollTick(t)
    \/ \E s \in Slots : \E items \in ExistsResponses : PollAudioOk(s, items)
    \/ \E s \in Slots : PollAudioFail(s)
    \/ \E n \in 0..(MaxChapters + 1) : GotoChapterNoop(n)
    \/ \E n \in 0..(MaxChapters + 1) : GotoChapter(n)
    \/ \E s \in Slots : \E r \in LoadedChapterResponses : LoadStateOk(s, r)
    \/ \E s \in Slots : \E items \in ExistsResponses : LoadAudioOk(s, items)

SpecRestart ==
    Init /\ [][NextRestart /\ ui'.reports <= MaxAudioReports /\ UNCHANGED tok]_vars

(* ================= the tokenizer applied to a text ================= *)
appVars == <<selectedData, currentPlotData, currentCharacters, currentChapter,
             currentBeats, beatTexts, beatAudio, audioPollTimer,
             audioPollInFlight, audioPollChapter, timers, inflight, ui,
             events, last>>

(* one iteration of the outer loop that ends in a continue: the span from
   the opening quote at i through the closing delimiter at j *)
TokSpan ==
    LET raw == tok.raw
        i   == tok.i
        j   == spanEnd(raw, i)
    IN  /\ i < Len(raw)
        /\ j < Len(raw)
        /\ tok' = [tok EXCEPT
                     !.out = Append(@, [dlg |-> TRUE,
                                        text |-> escapeHTML(slice(raw, i, j + 1))]),
                     !.i = j + 1]
        /\ UNCHANGED appVars

(* one iteration that falls through: out += escapeHTML(ch); i++ *)
TokLiteral ==
    LET raw == tok.raw
        i   == tok.i
    IN  /\ i < Len(raw)
        /\ spanEnd(raw, i) = Len(raw)
        /\ tok' = [tok EXCEPT
                     !.out = Append(@, [dlg |-> FALSE,
                                        text |-> escapeHTML(<<At(raw, i)>>)]),
                     !.i = i + 1]
        /\ UNCHANGED appVars

(* highlightDialogueToHtml(raw) is called with any text *)
InitTok == InitApp /\ tok \in {TokStart(raw) : raw \in TokInputs}

NextTok ==
    \/ TokSpan
    \/ TokLiteral

SpecTok == InitTok /\ [][NextTok]_vars

(* ================= properties ================= *)
PollsInFlight == {s \in Slots : inflight[s].pc = "poll_audio"}

NoneGenerating(audio) ==
    \A i \in BeatIdx : \A p \in TTS_PROVIDERS : audio[i][p].status # "generating"

(* C1: the step in which clearFrom(c, i) applies the successful clear_from
   response leaves no beat text at any index j >= i and leaves every text at
   an index j < i exactly as it was. *)
C1_ClearFromDropsSuffix ==
    [][\A s \in Slots : ClearFromOk(s) =>
          \A j \in BeatIdx :
              IF j >= inflight[s].idx THEN beatTexts'[j] = NoText
              ELSE beatTexts'[j] = beatTexts[j]]_vars

C1_Witness ==
    /\ last.op = "clear_from_ok" /\ last.idx = 1
    /\ IsWritten(beatTexts[0])
    /\ \A j \in BeatIdx : j >= 1 => beatTexts[j] = NoText

(* C2: when planChapter(c) has succeeded, the client holds no beat text and
   no audio job for the chapter, whether or not the clear_from request
   succeeded. *)
C2_PlanLeavesNothing ==
    last.op = "plan_done" => (beatTexts = EmptyTexts /\ beatAudio = EmptyAudio)

(* C3: on a rewrite of beat i the write request is issued only when no beat
   with index > i has text any more. *)
C3_RewriteInvalidatesFirst ==
    [][\A s \in Slots :
          (inflight[s].pc \in {"cf_req", "cf_audio"} /\ inflight[s].nxt >= 0
             /\ inflight'[s].pc = "wb_req")
          => \A j \in BeatIdx : j > inflight'[s].idx => ~IsWritten(beatTexts'[j])]_vars

(* C4: a poll response requested for a chapter other than the current one
   changes no audio job record, and navigation leaves no poll timer of the
   old chapter running. *)
C4_StalePollIgnored ==
    [][/\ \A s \in Slots :
            (inflight[s].pc = "poll_audio" /\ inflight'[s].pc = "idle"
               /\ inflight[s].ch # currentChapter) => beatAudio' = beatAudio
       /\ currentChapter' # currentChapter =>
            \A t \in timers' : t.ch = currentChapter']_vars

C7_OneTimer ==
    /\ Cardinality(timers) <= 1
    /\ \A t \in timers : t.id = audioPollTimer /\ t.ch = audioPollChapter
    /\ (audioPollTimer # NoTimer => timers # {})

C7_Witness ==
    /\ last.op = "gen_ok"
    /\ audioPollTimer = 2 /\ audioPollChapter = 2
    /\ timers = {[id |-> 2, ch |-> 2]}

(* C8: when generatePlot() has succeeded, the roster, the chapter plan, the
   beat texts and the audio jobs held before are gone. *)
C8_PlotInvalidatesDownstream ==
    last.op = "plot_ok" =>
        /\ currentCharacters = NoChars
        /\ currentBeats = NullBeats
        /\ beatTexts = EmptyTexts
        /\ beatAudio = EmptyAudio

(* C9: whenever an outline with chapters exists, currentChapter is within
   [1, totalChapters]. *)
C9_CursorInRange ==
    totalChapters(currentPlotData) > 0 =>
        (currentChapter >= 1 /\ currentChapter <= totalChapters(currentPlotData))

(* C10: when the state fetch of gotoChapter(n) has failed, currentChapter is
   what it was before the call. *)
C10_FailedGotoKeepsCursor ==
    last.op = "load_state_fail" => currentChapter = last.idx

(* ---- how writeBeat and clearBeat end ---- *)
(* writeBeat in slot s ends in its catch block *)
WriteEndsInError(s) ==
    \/ WriteBeatFail(s)
    \/ WriteBeatAudioFail(s)
    \/ \E items \in ExistsResponses : WriteBeatAudioOk(s, items) /\ AudioThrows
    \/ \E blank \in BOOLEAN : WriteBeatOk(s, blank) /\ currentBeats.len = NoBeats

(* clearBeat in slot s ends in its catch block *)
ClearEndsInError(s) ==
    \/ ClearBeatFail(s)
    \/ ClearBeatAudioFail(s)
    \/ \E items \in ExistsResponses : ClearBeatAudioOk(s, items) /\ AudioThrows
    \/ ClearBeatOk(s) /\ currentBeats.len = NoBeats

(* writeBeat in slot s returns without having entered its catch block *)
WriteSucceeds(s) ==
    /\ inflight'[s].pc = "idle"
    /\ \/ \E items \in ExistsResponses : WriteBeatAudioOk(s, items) /\ ~AudioThrows
       \/ \E ok \in BOOLEAN : ContinuityDone(s, ok)
       \/ \E blank \in BOOLEAN : WriteBeatOk(s, blank) /\ currentBeats.len # NoBeats

(* C11: when the new-text request of a rewrite of beat i fails, the beat
   texts of all indices are what they were when the rewrite was clicked. *)
C11_FailedRewriteKeepsTexts ==
    [][\A s \in Slots :
          (WriteBeatFail(s) /\ inflight[s].nxt >= 0) => beatTexts' = inflight[s].snap]_vars

(* C12: whenever writeBeat or clearBeat ends in its error path, the beat-text
   map equals its value when the operation was entered. *)
C12_ErrorLeavesTexts ==
    [][\A s \in Slots :
          (WriteEndsInError(s) \/ ClearEndsInError(s))
          => beatTexts' = inflight[s].before]_vars

(* C19: a writeBeat(i) that does not fail requests the continuity rebuild
   exactly when i is the last index of the plan held then; when the rebuild
   request fails the written text stays and the operation ends as it does
   when the rebuild succeeds. *)
C19_ContinuityOnLastBeat ==
    [][\A s \in Slots :
          /\ \A items \in ExistsResponses :
                (WriteBeatAudioOk(s, items) /\ ~AudioThrows)
                => (inflight'[s].pc = "wb_cont" <=> inflight[s].idx = currentBeats.len - 1)
          /\ (inflight[s].pc # "wb_cont" /\ inflight'[s].pc = "wb_cont")
                => (inflight[s].pc = "wb_audio" /\ inflight[s].idx = currentBeats.len - 1)
          /\ ContinuityDone(s, FALSE)
                => /\ beatTexts' = beatTexts
                   /\ inflight'[s].pc = "idle"
                   /\ ~ui'.step5Disabled /\ ~ui'.beatBtnsDisabled
                   /\ last'.op \notin {"write_fail", "write_audio_fail"}]_vars

C19_Witness ==
    /\ last.op = "continuity_fail"
    /\ last.idx = currentBeats.len - 1
    /\ IsWritten(beatTexts[last.idx])

(* C20: when the write control has completed successfully on beat i, first
   write or rewrite, no beat with an index > i has text. *)
C20_WriteInvalidatesLater ==
    [][\A s \in Slots :
          (WriteSucceeds(s) /\ inflight[s].ctl = "write")
          => \A j \in BeatIdx : j > inflight[s].idx => ~IsWritten(beatTexts'[j])]_vars

(* C18: planCurrentChapter issues its plan request only when an outline with
   at least one chapter and a selected idea exist, and otherwise changes
   nothing; when the clear_from request that follows a successful plan
   request fails, the handler does not take its error exit: the beat texts
   are emptied, the plan just installed stays, and the handler goes on to the
   status refresh (or, for an empty plan, finishes with step 5 enabled). *)
C18_PlanGuardAndBestEffortClear ==
    [][/\ \A s \in Slots :
            (inflight[s].pc # "plan_req" /\ inflight'[s].pc = "plan_req")
            => (totalChapters(currentPlotData) > 0 /\ selectedData)
       /\ last'.op = "plan_noop"
            => UNCHANGED <<selectedData, currentPlotData, currentCharacters,
                           currentChapter, currentBeats, beatTexts, beatAudio,
                           inflight, ui>>
       /\ \A s \in Slots :
            PlanClearFail(s)
            => /\ beatTexts' = EmptyTexts
               /\ currentBeats' = currentBeats
               /\ hasBeatsPlanLoaded(currentBeats) => inflight'[s].pc = "plan_audio"
               /\ currentBeats.len = 0
                    => (inflight'[s].pc = "idle" /\ ~ui'.step5Disabled)]_vars

C18_Witness ==
    /\ last.op = "plan_clear_fail"
    /\ beatTexts = EmptyTexts
    /\ hasBeatsPlanLoaded(currentBeats)
    /\ \E s \in Slots : inflight[s].pc = "plan_audio"

(* C17: at most one provider is the active one; a Generate / Regenerate
   button is enabled only for the provider that is active now, and none is
   enabled when no provider is loaded; audio that exists stays displayed
   whatever provider is active. *)
C17_OnlyActiveProviderEnabled ==
    /\ Cardinality({p \in TTS_PROVIDERS : getActiveTtsProvider(ui.loaded) = p}) <= 1
    /\ \A b \in ui.genEnabled : b[2] = getActiveTtsProvider(ui.loaded)
    /\ (ui.loaded = {} => ui.genEnabled = {})
    /\ \A i \in ui.audioRows : \A p \in TTS_PROVIDERS :
          (beatAudio[i][p].exists /\ beatAudio[i][p].url # "") => <<i, p>> \in ui.audioShown

(* C13: a click on Generate for (beat, provider) leaves the job with status
   generating, exists false and no url, with the generation request in
   flight and the poll timers as they were; when that request fails the job
   becomes error with exists false and no url, and no timer is started. *)
C13_GenerationRequestFailure ==
    [][/\ \A i \in BeatIdx : \A p \in TTS_PROVIDERS :
            GenerateAudioClick(i, p)
            => /\ beatAudio'[i][p] = [exists |-> FALSE, status |-> "generating", url |-> ""]
               /\ \E s \in Slots : /\ inflight[s].pc = "idle"
                                    /\ inflight'[s].pc = "gen_req"
                                    /\ inflight'[s].idx = i /\ inflight'[s].prov = p
               /\ timers' = timers /\ audioPollTimer' = audioPollTimer
       /\ \A s \in Slots :
            GenerateAudioFail(s)
            => /\ beatAudio'[inflight[s].idx][inflight[s].prov]
                     = [exists |-> FALSE, status |-> "error", url |-> ""]
               /\ timers' = timers /\ audioPollTimer' = audioPollTimer]_vars

C13_Witness ==
    /\ last.op = "gen_fail"
    /\ \E p \in TTS_PROVIDERS :
          beatAudio[last.idx][p] = [exists |-> FALSE, status |-> "error", url |-> ""]
    /\ timers = {} /\ audioPollTimer = NoTimer

(* C14: whenever some job of the current chapter is generating, and its own
   generation request is not still awaiting its response, a poll timer for
   the current chapter is active. *)
C14_PollerRunsWhileGenerating ==
    (\E i \in BeatIdx : \E p \in TTS_PROVIDERS :
        /\ beatAudio[i][p].status = "generating"
        /\ ~\E s \in Slots : /\ inflight[s].pc = "gen_req"
                              /\ inflight[s].idx = i /\ inflight[s].prov = p)
    => \E t \in timers : t.ch = currentChapter

(* C15: polling always terminates: a poll timer that is active is eventually
   cleared, also when the server reports a job as generating for ever or
   every status request fails. *)
C15_PollingTerminates ==
    (timers # {}) ~> (timers = {})

(* ---- the items of a status response ---- *)
Reported(items, i, p) ==
    \E k \in 1..Len(items) : items[k].beat_index = i /\ items[k].provider = p

LastReported(items, i, p) ==
    items[CHOOSE k \in 1..Len(items) :
            /\ items[k].beat_index = i /\ items[k].provider = p
            /\ \A m \in (k + 1)..Len(items) :
                  ~(items[m].beat_index = i /\ items[m].provider = p)]

(* C16: applying a status response replaces the record of every reported
   (beat, provider) by the reported exists, status and url (with the status
   and url the report implies when it names none) and keeps nothing of the
   prior record; the record of every pair the response does not report is
   left as it was. *)
C16_StatusReplacesReportedOnly ==
    [][\A s \in Slots : \A items \in StatusResponses :
          (PollAudioOk(s, items) \/ BootAudioOk(s, items) \/ LoadAudioOk(s, items))
          => \A i \in BeatIdx : \A p \in TTS_PROVIDERS :
                IF Reported(items, i, p)
                THEN LET it == LastReported(items, i, p) IN
                     /\ beatAudio'[i][p].exists = it.exists
                     /\ beatAudio'[i][p].status =
                           (IF it.status # "" THEN it.status
                            ELSE IF it.exists THEN "ready" ELSE "missing")
                     /\ beatAudio'[i][p].url =
                           (IF it.url # "" THEN it.url ELSE IF it.exists THEN "wav" ELSE "")
                ELSE beatAudio'[i][p] = beatAudio[i][p]]_vars

C16_Witness ==
    /\ last.op = "poll_ok"
    /\ beatAudio[0]["piper"] = [exists |-> FALSE, status |-> "error", url |-> ""]
    /\ beatAudio[1]["piper"].status = "generating"

(* C21: when clearFrom(c, i) has succeeded no provider of a beat with index
   >= i holds audio that exists or is ready, unless the status response that
   ended the operation reported that job; when clearBeat(c, i) has succeeded
   the same holds for the providers of beat i. *)
C21_ClearInvalidatesAudio ==
    [][\A s \in Slots : \A items \in ExistsResponses :
          /\ (ClearFromAudioOk(s, items) /\ ~AudioThrows)
                => \A j \in BeatIdx : \A p \in TTS_PROVIDERS :
                      (j >= inflight[s].idx /\ ~Reported(items, j, p))
                      => (~beatAudio'[j][p].exists /\ beatAudio'[j][p].status # "ready")
          /\ (ClearBeatAudioOk(s, items) /\ ~AudioThrows)
                => \A p \in TTS_PROVIDERS :
                      ~Reported(items, inflight[s].idx, p)
                      => /\ ~beatAudio'[inflight[s].idx][p].exists
                         /\ beatAudio'[inflight[s].idx][p].status # "ready"]_vars

(* C22: the step in which clearBeat(c, i) applies the successful clear
   response removes the text of beat i and leaves the text of every other
   beat, before and after i, as it was; the rest of the operation changes no
   text, and neither does a clearBeat whose request fails. *)
C22_ClearBeatOnlyThatBeat ==
    [][\A s \in Slots :
          /\ ClearBeatOk(s)
                => /\ beatTexts'[inflight[s].idx] = NoText
                   /\ \A j \in BeatIdx : j # inflight[s].idx => beatTexts'[j] = beatTexts[j]
          /\ ClearBeatFail(s) => beatTexts' = beatTexts
          /\ (inflight[s].pc = "cb_audio" /\ inflight'[s].pc = "idle")
                => beatTexts' = beatTexts]_vars

C22_Witness ==
    /\ last.op = "clear_ok" /\ last.idx = 0
    /\ beatTexts[0] = NoText
    /\ IsWritten(beatTexts[1])

(* C23: a successful clearFrom(c, 0) leaves the empty beat-text map and the
   plan it found, whatever map it started from; started from the empty map
   that a clearFrom(c, 0) leaves, it leaves map and plan as they are; the
   status refresh that ends it changes neither. *)
C23_ClearAllIdempotent ==
    [][\A s \in Slots :
          /\ (ClearFromOk(s) /\ inflight[s].idx = 0)
                => /\ beatTexts' = EmptyTexts
                   /\ currentBeats' = currentBeats
                   /\ inflight[s].before = EmptyTexts => beatTexts' = inflight[s].before
          /\ (inflight[s].pc = "cf_audio" /\ inflight[s].idx = 0
                /\ inflight'[s].pc # "cf_audio")
                => (beatTexts' = beatTexts /\ currentBeats' = currentBeats)]_vars

(* a second clearFrom(c, 0) has succeeded on the map the first one left: two
   audio records exist, the one the bootstrap loaded and the one the status
   refresh of the first clearFrom loaded *)
C23_Witness ==
    /\ last.op = "clear_from_ok" /\ last.idx = 0
    /\ events = 2
    /\ \E s \in Slots : /\ inflight[s].pc = "cf_audio" /\ inflight[s].idx = 0
                         /\ inflight[s].before = EmptyTexts
    /\ beatTexts = EmptyTexts
    /\ hasBeatsPlanLoaded(currentBeats)
    /\ \A i \in BeatIdx : beatAudio[i]["piper"].exists

(* C24: when gotoChapter(n) has succeeded the plan is null or the plan of
   chapter n, every beat text is a text of chapter n, and every audio record
   that the status response for n did not report is the default record. *)
C24_GotoReplacesChapterState ==
    [][\A s \in Slots :
          /\ (inflight[s].pc = "load_state" /\ last'.op = "load_state_ok"
                /\ inflight'[s].pc = "idle")
                => /\ (currentBeats' = NullBeats \/ currentBeats'.ch = inflight[s].ch)
                   /\ \A i \in BeatIdx :
                         beatTexts'[i] \in {NoText, Blank, TextOf(inflight[s].ch)}
                   /\ beatAudio' = EmptyAudio
          /\ \A items \in ExistsResponses :
                (LoadAudioOk(s, items) /\ ~AudioThrows)
                => /\ currentBeats'.ch = inflight[s].ch
                   /\ \A i \in BeatIdx :
                         beatTexts'[i] \in {NoText, Blank, TextOf(inflight[s].ch)}
                   /\ \A i \in BeatIdx : \A p \in TTS_PROVIDERS :
                         Reported(items, i, p) \/ beatAudio'[i][p] = DefaultAudio]_vars

(* C25: in every state the beat-text map has keys only below the length of
   the plan that is installed. *)
C25_TextKeysWithinPlan ==
    \A i \in BeatIdx : beatTexts[i] # NoText => i < currentBeats.len

(* ---- the controls during and after an operation on the beats ---- *)
BeatOpPcs == {"wb_req", "wb_audio", "wb_cont", "cf_req", "cf_audio",
              "cb_req", "cb_audio", "ga_req", "ga_cont"}

BeatOpSegments ==
    {"write_click", "rewrite_click", "write_next", "clear_from_click", "clear_all",
     "clear_click", "generate_all", "write_ok", "write_audio_ok", "clear_from_ok",
     "clear_from_fail", "clear_from_done", "clear_from_audio_fail", "clear_ok",
     "generate_all_ok"}

OthersIdle(s) == \A t \in Slots : t # s => inflight[t].pc = "idle"

StillOn(u, c) ==
    CASE c = "step5" -> ~u.step5Disabled
      [] c = "beat"  -> ~u.beatBtnsDisabled
      [] c = "prev"  -> ~u.prevDisabled
      [] c = "next"  -> ~u.nextDisabled

(* C26: while a write, rewrite, clear, clear-from or generate-all call is in
   flight, after every step of that call the write, clear and clear-from
   buttons of the rows are disabled. *)
C26_RowButtonsDisabledInFlight ==
    ((\E s \in Slots : inflight[s].pc \in BeatOpPcs) /\ last.op \in BeatOpSegments)
    => (ui.rows = {} \/ ui.beatBtnsDisabled)

(* C27: when planCurrentChapter finishes, in success or in failure, with no
   other handler in flight, every control that was enabled when it was
   clicked is enabled; when an operation started from write-next,
   generate-all or clear-all finishes, those three controls are enabled. *)
C27_ControlsRestored ==
    [][\A s \in Slots :
          /\ (inflight[s].pc \in {"plan_req", "plan_clear", "plan_audio"}
                /\ inflight'[s].pc = "idle" /\ OthersIdle(s))
                => \A c \in inflight[s].on : StillOn(ui', c)
          /\ (inflight[s].pc \in BeatOpPcs /\ inflight'[s].pc = "idle"
                /\ inflight[s].ctl \in {"next", "all", "clear_all"} /\ OthersIdle(s))
                => ~ui'.step5Disabled]_vars

(* C28: the bootstrap installs the selection, the outline and the roster of
   the /state response, and when it completes it has opened step 5 when a
   plan is installed, otherwise step 3 when the response has a roster with
   at least one character, otherwise step 2 when the response has an
   outline, otherwise step 1. *)
C28_BootOpensDeepestStage ==
    [][\A s \in Slots :
          /\ inflight[s].pc = "boot_state" =>
              \A r \in PipeStateResponses :
                BootStateOk(s, r)
                => /\ (r.selected => selectedData')
                   /\ (r.plot # NoPlot => currentPlotData' = r.plot)
                   /\ (r.characters # NoChars => currentCharacters' = r.characters)
                   /\ inflight'[s].pc = "idle"
                        => ui'.step =
                             (IF currentBeats'.len # NoBeats THEN "step-5"
                              ELSE IF r.characters # NoChars /\ r.characters > 0 THEN "step-3"
                              ELSE IF r.plot # NoPlot THEN "step-2"
                              ELSE "step-1")
          /\ inflight[s].pc = "boot_audio" =>
              \A items \in ExistsResponses :
                (BootAudioOk(s, items) /\ ~AudioThrows)
                => (ui'.step = "step-5" /\ UNCHANGED pipeVars)]_vars

C28_Witness ==
    /\ last.op = "boot_state_ok"
    /\ ui.step = "step-3"
    /\ currentPlotData # NoPlot /\ currentCharacters > 0 /\ selectedData
    /\ currentBeats = NullBeats

(* C29: when a poll response for the chapter on show reports a job that is
   generating locally as existing and ready, the job becomes ready with the
   reported url, and in the same step the poll timer is cleared if no job is
   generating any more and kept if one is. *)
C29_ReadyReportCompletesJob ==
    [][\A s \in Slots :
          (inflight[s].pc = "poll_audio" /\ inflight'[s].pc = "idle"
             /\ inflight[s].ch = currentChapter /\ currentBeats.ch = currentChapter) =>
          \A i \in BeatIdx : \A p \in TTS_PROVIDERS :
             beatAudio[i][p].status = "generating" =>
             \A items \in StatusResponses :
                (/\ Reported(items, i, p)
                 /\ LastReported(items, i, p).exists
                 /\ LastReported(items, i, p).status = "ready"
                 /\ PollAudioOk(s, items))
                => /\ beatAudio'[i][p] = [exists |-> TRUE, status |-> "ready",
                                          url |-> LastReported(items, i, p).url]
                   /\ IF NoneGenerating(beatAudio')
                      THEN audioPollTimer' = NoTimer /\ timers' = {}
                      ELSE audioPollTimer' = audioPollTimer /\ timers' = timers]_vars

(* the only provider loaded is qwen, so the job that was requested and is now
   ready is a qwen job; no status response of a load reports one *)
C29_Witness ==
    /\ last.op = "poll_ok"
    /\ ui.loaded = {"qwen"}
    /\ \E i \in BeatIdx :
          beatAudio[i]["qwen"] = [exists |-> TRUE, status |-> "ready", url |-> "srv"]
    /\ NoneGenerating(beatAudio)
    /\ audioPollTimer = NoTimer /\ timers = {}

(* C30: a generation request, its outcome or a poll response changes the
   status of a job only from missing, ready or error to generating, or from
   generating to ready or error. *)
C30_StatusTransitions ==
    [][last'.op \in {"gen_click", "gen_ok", "gen_fail", "poll_ok", "poll_throw"}
       => \A i \in BeatIdx : \A p \in TTS_PROVIDERS :
             beatAudio'[i][p].status # beatAudio[i][p].status
             => <<beatAudio[i][p].status, beatAudio'[i][p].status>> \in
                  {<<"missing", "generating">>, <<"generating", "ready">>,
                   <<"generating", "error">>, <<"ready", "generating">>,
                   <<"error", "generating">>}]_vars

(* ---------------- the dialogue tokenizer ---------------- *)
(* the loop has consumed the whole text *)
TokDone == tok.i >= Len(tok.raw)

(* what a character reads as in HTML *)
Entity(c) ==
    CASE c = "&" -> "&amp;"
      [] c = "<" -> "&lt;"
      [] c = ">" -> "&gt;"
      [] c = DQ  -> "&quot;"
      [] c = SQ  -> "&#039;"
      [] OTHER   -> c

Escaped(raw) == [k \in DOMAIN raw |-> Entity(raw[k])]

(* the output with the wrappers removed *)
RECURSIVE Unwrapped(_)
Unwrapped(out) ==
    IF out = << >> THEN << >> ELSE Head(out).text \o Unwrapped(Tail(out))

Positions(raw, c) == {k \in 0..(Len(raw) - 1) : raw[k + 1] = c}
SpansOf(out) == {k \in DOMAIN out : out[k].dlg}

(* raw has exactly two straight double quotes, at a < b, and no other quote
   character; the first is at a boundary and the second is not escaped *)
OneDoubleQuotedSpan(raw, a, b) ==
    /\ Positions(raw, DQ) = {a, b}
    /\ a < b
    /\ Positions(raw, SQ) \cup Positions(raw, LDQ) \cup Positions(raw, RDQ) = {}
    /\ (a = 0 \/ raw[a] \notin WordChars)
    /\ raw[b] # BS

(* C31: when the text has one straight double-quoted span that opens at a
   boundary and is closed, the output has exactly one dialogue span, it is
   the escaped substring from the opening quote through the closing quote,
   and the output without the wrapper is the escaped text. *)
C31_OneDoubleQuotedSpan ==
    TokDone =>
      \A a, b \in 0..(Len(tok.raw) - 1) :
        OneDoubleQuotedSpan(tok.raw, a, b) =>
          /\ \E k \in DOMAIN tok.out :
                /\ SpansOf(tok.out) = {k}
                /\ tok.out[k].text = Escaped(SubSeq(tok.raw, a + 1, b + 1))
                /\ Unwrapped(SubSeq(tok.out, 1, k - 1)) = Escaped(SubSeq(tok.raw, 1, a))
          /\ Unwrapped(tok.out) = Escaped(tok.raw)

(* He "a" a: the span is in the middle of the text *)
C31_Witness ==
    /\ TokDone
    /\ tok.raw = <<"a", " ", DQ, "a", DQ>>
    /\ SpansOf(tok.out) = {3}
    /\ tok.out[3].text = <<"&quot;", "a", "&quot;">>

(* the only quote characters of raw are straight single quotes, and each has
   a word character right before it *)
OnlyApostrophes(raw) ==
    /\ Positions(raw, DQ) \cup Positions(raw, LDQ) \cup Positions(raw, RDQ) = {}
    /\ Positions(raw, SQ) # {}
    /\ \A k \in Positions(raw, SQ) : k > 0 /\ raw[k] \in WordChars

(* C32: a text whose only quote characters are single quotes that follow a
   word character gets no dialogue span. *)
C32_ApostrophesOpenNoSpan ==
    OnlyApostrophes(tok.raw) => SpansOf(tok.out) = {}

(* a'aa': the second apostrophe is followed by the end of the text *)
C32_Witness ==
    /\ TokDone
    /\ tok.raw = <<"a", SQ, "a", "a", SQ>>
    /\ OnlyApostrophes(tok.raw)
    /\ SpansOf(tok.out) = {}
    /\ Unwrapped(tok.out) = <<"a", "&#039;", "a", "a", "&#039;">>

(* the positions of raw, 0-based, that the k-th addition to the output covers *)
StartOf(out, k) == Len(Unwrapped(SubSeq(out, 1, k - 1)))
EndOf(out, k) == StartOf(out, k) + Len(out[k].text) - 1

(* position k of raw is the start of the text or follows a character that is
   not a letter, digit or underscore *)
AtBoundary(raw, k) == k = 0 \/ raw[k] \notin WordChars
(* position k of raw is the end of the text or precedes such a character *)
BeforeBoundary(raw, k) == k = Len(raw) - 1 \/ raw[k + 2] \notin WordChars

UnescapedDouble(raw, j) == raw[j + 1] = DQ /\ raw[j] # BS

(* C33: a span that starts with a straight double quote starts at a
   boundary and ends at the first later straight double quote that has no
   backslash right before it. *)
C33_DoubleQuoteSpans ==
    \A k \in SpansOf(tok.out) :
      LET a == StartOf(tok.out, k)
          b == EndOf(tok.out, k)
      IN  tok.raw[a + 1] = DQ =>
            /\ AtBoundary(tok.raw, a)
            /\ a < b
            /\ UnescapedDouble(tok.raw, b)
            /\ \A j \in (a + 1)..(b - 1) : ~UnescapedDouble(tok.raw, j)

(* "\"a": the escaped quote in the middle does not end the span *)
C33_Witness ==
    /\ TokDone
    /\ tok.raw = <<DQ, BS, DQ, "a", DQ>>
    /\ SpansOf(tok.out) = {1}
    /\ EndOf(tok.out, 1) = 4

ClosingSingle(raw, j) ==
    /\ raw[j + 1] = SQ
    /\ ~(raw[j] \in WordChars /\ j + 1 < Len(raw) /\ raw[j + 2] \in WordChars)
    /\ BeforeBoundary(raw, j)

(* C34: a span that starts with a straight single quote starts at a boundary
   and ends at the first later single quote that is not inside a word and is
   followed by a boundary; no single quote followed by a word character ends
   a span. *)
C34_SingleQuoteSpans ==
    \A k \in SpansOf(tok.out) :
      LET a == StartOf(tok.out, k)
          b == EndOf(tok.out, k)
      IN  tok.raw[a + 1] = SQ =>
            /\ AtBoundary(tok.raw, a)
            /\ a < b
            /\ ClosingSingle(tok.raw, b)
            /\ BeforeBoundary(tok.raw, b)
            /\ \A j \in (a + 1)..(b - 1) : ~ClosingSingle(tok.raw, j)

(* 'a'a': the apostrophe inside the word does not end the span *)
C34_Witness ==
    /\ TokDone
    /\ tok.raw = <<SQ, "a", SQ, "a", SQ>>
    /\ SpansOf(tok.out) = {1}
    /\ EndOf(tok.out, 1) = 4

(* the character at position i opens one of the three kinds of span and no
   later character closes it *)
UnclosedOpener(raw, i) ==
    \/ /\ raw[i + 1] = LDQ
       /\ \A j \in (i + 1)..(Len(raw) - 1) : raw[j + 1] # RDQ
    \/ /\ raw[i + 1] = DQ
       /\ \A j \in (i + 1)..(Len(raw) - 1) : ~UnescapedDouble(raw, j)
    \/ /\ raw[i + 1] = SQ
       /\ \A j \in (i + 1)..(Len(raw) - 1) : ~ClosingSingle(raw, j)

(* C35: every iteration consumes at least one character and stays inside
   the text, the output without the wrappers is the escape of the characters
   consumed so far, and an opening quote that nothing closes is added as one
   escaped character outside any span. *)
C35_EscapedOnceInOrder ==
    [][/\ tok'.i > tok.i
       /\ tok'.i <= Len(tok.raw)
       /\ Unwrapped(tok'.out) = Escaped(SubSeq(tok.raw, 1, tok'.i))
       /\ UnclosedOpener(tok.raw, tok.i)
            => /\ tok'.i = tok.i + 1
               /\ ~tok'.out[Len(tok'.out)].dlg
               /\ tok'.out[Len(tok'.out)].text = <<Entity(tok.raw[tok.i + 1])>>
      ]_vars

(* an unclosed opener of each kind *)
C35_Witness ==
    /\ TokDone
    /\ tok.raw = <<LDQ, " ", DQ, " ", SQ>>
    /\ SpansOf(tok.out) = {}
    /\ Unwrapped(tok.out) = <<LDQ, " ", "&quot;", " ", "&#039;">>

(* ---------------- overlapping requests ---------------- *)
(* C36: when no request is in flight any more, the plan is null or the plan
   of the chapter that currentChapter names, and every beat text is a text
   of that chapter. *)
C36_LoadsSettleOnCurrentChapter ==
    (\A s \in Slots : inflight[s].pc = "idle")
      => /\ (currentBeats = NullBeats \/ currentBeats.ch = currentChapter)
         /\ \A i \in BeatIdx : beatTexts[i] \in {NoText, Blank, TextOf(currentChapter)}

(* C37: when the plan response arrives, the chapter on show, whose plan the
   response becomes, is the chapter the plan request named, and the
   clear-from request that follows names that chapter too. *)
C37_PlanKeepsItsChapter ==
    [][\A s \in Slots :
          (inflight[s].pc = "plan_req" /\ inflight'[s].pc = "plan_clear")
            => /\ currentChapter = inflight[s].ch
               /\ inflight'[s].ch = inflight[s].ch]_vars

(* C38: when a generation request is accepted the poller polls the chapter
   the request named; when it fails after the user has moved to another
   chapter whose state is installed, no job of that other chapter changes. *)
C38_GenerationKeepsItsChapter ==
    [][\A s \in Slots :
          (inflight[s].pc = "gen_req" /\ inflight'[s].pc = "idle")
            => /\ last'.op = "gen_ok" => audioPollChapter' = inflight[s].ch
               /\ (last'.op = "gen_fail"
                     /\ currentChapter # inflight[s].ch
                     /\ currentBeats.ch = currentChapter)
                    => beatAudio' = beatAudio]_vars

(* C40: the generation request that a click on Generate for (beat,
   provider) sends carries force = true exactly when the audio of that job
   existed when the button was clicked. *)
C40_ForceIffAudioExisted ==
    [][\A i \in BeatIdx : \A p \in TTS_PROVIDERS :
          \A s \in Slots :
            (inflight[s].pc = "idle" /\ inflight'[s].pc = "gen_req"
               /\ inflight'[s].idx = i /\ inflight'[s].prov = p)
              => inflight'[s].force = beatAudio[i][p].exists]_vars

(* C39: the response to a tick of a timer that has been replaced since
   leaves the timer that replaced it running. *)
C39_StaleTickLeavesNewPoller ==
    [][\A s \in Slots :
          (/\ inflight[s].pc = "poll_audio" /\ inflight'[s].pc = "idle"
           /\ audioPollTimer # NoTimer
           /\ inflight[s].tid # audioPollTimer)
            => /\ audioPollTimer' = audioPollTimer
               /\ timers' = timers]_vars
====
